---- MODULE Spec2Model ----
(***************************************************************************)
(* The session-scoped streaming pipeline of the audio backend:             *)
(* AudioProcessor.process_audio_chunk_and_save (chunk sequencing, record,  *)
(* finalisation), the chunk endpoint that schedules it as a background     *)
(* task, KeywordDetector.detect_keywords and                               *)
(* NotificationService.send_notification.                                  *)
(*                                                                         *)
(* Background tasks are asyncio coroutines on one event loop: a task runs  *)
(* without interruption from one suspension point to the next.  The        *)
(* suspension points of a chunk task are the executor call inside          *)
(* transcribe_chunk and every `await send_notification`.  One action of    *)
(* the model is one such uninterrupted run.                                *)
(*                                                                         *)
(* Texts are sequences of one-character strings.  Confidences and          *)
(* thresholds are in tenths (1.0 is 10, 0.8 is 8, 0.7 is 7).               *)
(***************************************************************************)
EXTENDS Integers, Sequences, FiniteSets, TLC

\* Number of calls (background tasks) a behaviour submits.
MaxTasks == 2

\* The chunks of the end-to-end scenario: seq 5, then seq 3, then the
\* terminal seq 6, all of session "s1".
ChunkScenario ==
    << [sequence_number |-> 5, is_final |-> FALSE],
       [sequence_number |-> 3, is_final |-> FALSE],
       [sequence_number |-> 6, is_final |-> TRUE] >>

\* Call slots: enough for MaxTasks calls and for the scenario.
TaskIds == 1..(IF MaxTasks > Len(ChunkScenario) THEN MaxTasks ELSE Len(ChunkScenario))

\* Session identifiers; storage knows the first only.
Sessions == {"s1", "s2"}
KnownSessions == {"s1"}

\* Sequence numbers the producers send (the scenario has its own).
SeqNumbers == {3, 5}

None == "None"

\* the text None given to detect_keywords (texts are sequences)
NoText == <<None>>

\* what a call that ends by AttributeError is recorded to return: no hit
\* has this form
AttributeError == << [id |-> -1, keyword |-> <<"AttributeError">>, confidence |-> 0] >>

\* no state dict: the session id is not a key of active_sessions
NoRef == 0

\* duration None: the transcript has no segments
NoDuration == -1

\* AudioProcessor instances: 0 is an instance shared by direct callers, t is
\* the instance the chunk endpoint constructs for request t.
SharedProc == 0
Procs == {SharedProc} \cup TaskIds

\* WebSocket connections made to /connect/{session_id}, and send_notification
\* calls followed down to their deliveries
MaxSockets == 2
MaxPublishes == 2

\* how often one WebSocket is taken through the registration of lines 29-31
MaxRegistrations == 2

\* the keywords created through the keyword endpoints
MaxKeywordIds == 2

\* the WebSocket objects; every connection is an object of its own
Handles == 1..MaxSockets

PublishIds == 1..MaxPublishes

(***************************************************************************)
(* Text                                                                    *)
(***************************************************************************)

\* str.lower() on the alphabet of the model
LowerChar(c) == IF c = "P" THEN "p" ELSE IF c = "X" THEN "x" ELSE c

Lower(s) == [i \in 1..Len(s) |-> LowerChar(s[i])]

\* \w of the regular expression engine, on the alphabet of the model
IsWordChar(c) == c \in {"p", "P", "x", "X", "m", "o", "k", "1", "2", "3", "4", "5", "6", "_"}

WordAt(s, i) == i \in 1..Len(s) /\ IsWordChar(s[i])

\* \b holds between positions i-1 and i
Boundary(s, i) == WordAt(s, i - 1) # WordAt(s, i)

MatchAt(s, kw, i) ==
    /\ i >= 1
    /\ i + Len(kw) - 1 <= Len(s)
    /\ SubSeq(s, i, i + Len(kw) - 1) = kw

\* re.search(r'\b' + re.escape(kw) + r'\b', s)
WordMatch(kw, s) ==
    \E i \in 1..(Len(s) + 1) :
        MatchAt(s, kw, i) /\ Boundary(s, i) /\ Boundary(s, i + Len(kw))

\* kw in s
Contains(kw, s) == \E i \in 1..(Len(s) + 1) : MatchAt(s, kw, i)

RECURSIVE Join(_, _)
\* sep.join(texts)
Join(texts, sep) ==
    IF texts = <<>> THEN <<>>
    ELSE IF Len(texts) = 1 THEN texts[1]
    ELSE texts[1] \o sep \o Join(Tail(texts), sep)

RECURSIVE Flatten(_)
Flatten(ss) == IF ss = <<>> THEN <<>> ELSE Head(ss) \o Flatten(Tail(ss))

(***************************************************************************)
(* KeywordDetector                                                         *)
(***************************************************************************)

\* confidence of a whole-word match (1.0)
ExactConfidence == 10

\* confidence of a substring match (0.8)
PartialConfidence == 8

\* Rows of the keywords table the detector loads when it is constructed.
StoredKeywords ==
    << [id |-> 1, text |-> <<"P">>, threshold |-> 7],
       [id |-> 2, text |-> <<"x">>, threshold |-> 9] >>

CacheEntry(row) ==
    [key |-> Lower(row.text), id |-> row.id, text |-> row.text,
     threshold |-> row.threshold]

RECURSIVE LoadKeywords(_, _)
\* _load_keywords_from_db: a dict keyed by the lowercased text, in insertion
\* order; a later row with the same key replaces the value in place.
LoadKeywords(rows, cache) ==
    IF rows = <<>> THEN cache
    ELSE LET e == CacheEntry(Head(rows))
             at == {i \in 1..Len(cache) : cache[i].key = e.key}
         IN LoadKeywords(Tail(rows),
                IF at = {} THEN Append(cache, e)
                ELSE [i \in 1..Len(cache) |-> IF i \in at THEN e ELSE cache[i]])

keywords_cache == LoadKeywords(StoredKeywords, <<>>)

KeywordHit(kd, confidence) ==
    [id |-> kd.id, keyword |-> kd.text, confidence |-> confidence]

RECURSIVE ScanKeywordsAbove(_, _, _)
\* A faulty line 103 that asks the confidence to be above the threshold.
ScanKeywordsAbove(cache, text_lower, i) ==
    IF i > Len(cache) THEN <<>>
    ELSE LET kd == cache[i]
             rest == ScanKeywordsAbove(cache, text_lower, i + 1)
         IN IF WordMatch(kd.key, text_lower)
            THEN <<KeywordHit(kd, ExactConfidence)>> \o rest
            ELSE IF Contains(kd.key, text_lower) /\ PartialConfidence > kd.threshold
            THEN <<KeywordHit(kd, PartialConfidence)>> \o rest
            ELSE rest

RECURSIVE ScanKeywords(_, _, _)
\* the loop over keywords_cache.items()
ScanKeywords(cache, text_lower, i) ==
    IF i > Len(cache) THEN <<>>
    ELSE LET kd == cache[i]
             rest == ScanKeywords(cache, text_lower, i + 1)
         IN IF WordMatch(kd.key, text_lower)
            THEN <<KeywordHit(kd, ExactConfidence)>> \o rest
            ELSE IF Contains(kd.key, text_lower) /\ PartialConfidence >= kd.threshold
            THEN <<KeywordHit(kd, PartialConfidence)>> \o rest
            ELSE rest

RECURSIVE InsertHitBefore(_, _)
\* A faulty sort that is not stable: h goes before the hits of its own
\* confidence.
InsertHitBefore(sorted, h) ==
    IF sorted = <<>> THEN <<h>>
    ELSE IF Head(sorted).confidence > h.confidence
    THEN <<Head(sorted)>> \o InsertHitBefore(Tail(sorted), h)
    ELSE <<h>> \o sorted

RECURSIVE InsertHit(_, _)
\* h goes behind every hit whose confidence is at least its own
InsertHit(sorted, h) ==
    IF sorted = <<>> THEN <<h>>
    ELSE IF Head(sorted).confidence >= h.confidence
    THEN <<Head(sorted)>> \o InsertHit(Tail(sorted), h)
    ELSE <<h>> \o sorted

RECURSIVE SortByConfidence(_)
\* list.sort(key=confidence, reverse=True): descending and stable
SortByConfidence(hits) ==
    IF hits = <<>> THEN <<>>
    ELSE InsertHit(SortByConfidence(SubSeq(hits, 1, Len(hits) - 1)), hits[Len(hits)])

\* A faulty detect_keywords without the test of lines 78-79: None has no
\* method lower.
detect_keywords_unguarded(cache, text) ==
    IF text = NoText THEN AttributeError
    ELSE SortByConfidence(ScanKeywords(cache, Lower(text), 1))

\* lines 78-115; `not text` holds for "" and for None
detect_keywords(cache, text) ==
    IF text = <<>> \/ text = NoText THEN <<>>
    ELSE SortByConfidence(ScanKeywords(cache, Lower(text), 1))

(***************************************************************************)
(* TranscriptionService                                                    *)
(***************************************************************************)

Segment(text, start_time, end_time) ==
    [text |-> text, start_time |-> start_time, end_time |-> end_time,
     detected_keywords |-> <<>>]

\* The audio of call t is told apart by the digit it is transcribed to.
AudioTag(t) == <<"1", "2", "3", "4", "5", "6">>[t]

\* _create_mock_transcription: three fixed segments (texts abbreviated), the
\* last one ending at 11.0
MockSegments ==
    << Segment(<<"m">>, 0, 3), Segment(<<"o">>, 3, 7), Segment(<<"k">>, 7, 11) >>

\* What the speech-to-text call and the parsing of its response end in:
\*   "plain", "keyword": a response with one segment, the second naming the
\*                       first stored keyword as a word of its own;
\*   "quota":     the call fails with a quota message, the mock is returned;
\*   "error":     the call fails otherwise and the exception is re-raised.
Responses == {"plain", "keyword", "quota", "error"}

\* The same with fewer single-segment responses and with
\*   "repeated":  a response with two segments that both name the first
\*                stored keyword.
SegmentResponses == {"keyword", "repeated", "error"}

\* segments of the TranscriptionResult transcribe_chunk returns
SegmentsOf(resp, t) ==
    CASE resp = "plain" -> << Segment(<<AudioTag(t)>>, 0, t) >>
      [] resp = "keyword" -> << Segment(<<"P", " ", AudioTag(t)>>, 0, t) >>
      [] resp = "quota" -> MockSegments
      [] resp = "repeated" ->
             << Segment(<<"P", " ", AudioTag(t)>>, 0, t), Segment(<<"p">>, t, t + 1) >>
      [] OTHER -> <<>>

(***************************************************************************)
(* NotificationService                                                     *)
(***************************************************************************)

\* What happens to one notification: whether the broker publish succeeds and
\* whether the local broadcast runs through without raising.
Fates == [broker : BOOLEAN, local : BOOLEAN]

\* A faulty send_notification without its try/except: a failed publish or
\* broadcast reaches the caller.
send_notification_unguarded(f) ==
    IF ~f.broker THEN "raised"
    ELSE IF ~f.local THEN "raised"
    ELSE "sent"

\* send_notification: the publish and the broadcast run inside try/except
\* Exception; a failed publish skips the broadcast.  The result says how the
\* call ended; "raised" means an exception reached the caller.
send_notification(f) ==
    IF ~f.broker THEN "logged"
    ELSE IF ~f.local THEN "logged"
    ELSE "sent"

\* Whether a send_notification call can end in an exception at its caller,
\* over everything that can happen to the notification.
SendRaises == {send_notification(f) = "raised" : f \in Fates}

(***************************************************************************)
(* State                                                                   *)
(***************************************************************************)

VARIABLES
    api_key,          \* settings.OPENAI_API_KEY is set
    db_sessions,      \* storage: the session ids of the audio_sessions table
    transcripts,      \* storage: the rows of the transcripts table, in order
    active_sessions,  \* AudioProcessor.active_sessions of each instance:
                      \*   session id -> the state dict it refers to, or None
    heap,             \* the state dicts ever created, by the call that made them
    tasks,            \* the calls: arguments, position, locals, emitted events
    temp_files,       \* calls whose temporary audio file exists on disk
    active_connections,  \* notification.active_connections: session id -> the
                         \*   list object it refers to, or None
    connection_lists,    \* the list objects ever created, by the WebSocket
                         \*   whose registration made them
    websockets,          \* the websocket_endpoint call of every WebSocket
    broadcasts,          \* send_notification calls followed to their deliveries
    keywords_table,      \* storage: the rows of the keywords table, in order
    detector,            \* a KeywordDetector: whether it is constructed, and
                         \*   its keywords_cache in insertion order
    detector_calls,      \* the last call on the detector and its result, and
                         \*   the first detect_keywords call for comparison
    keyword_requests     \* the requests to the keyword endpoints: the last
                         \*   two with their responses, and the next id of
                         \*   the keywords table

audio_vars == <<api_key, db_sessions, transcripts, active_sessions, heap, tasks, temp_files>>

notification_vars == <<active_connections, connection_lists, websockets, broadcasts>>

detector_vars == <<keywords_table, detector, detector_calls, keyword_requests>>

vars == <<api_key, db_sessions, transcripts, active_sessions, heap, tasks, temp_files,
          active_connections, connection_lists, websockets, broadcasts,
          keywords_table, detector, detector_calls, keyword_requests>>

\* a call that no request to an endpoint has made
NoResponse == [status |-> 0, body |-> <<>>]

\* raise HTTPException(status_code, detail)
HTTPException(status_code, detail) ==
    [status |-> status_code, body |-> [detail |-> detail]]

\* the TranscriptionResult the endpoints create before the background task
\* has run, as the response_model serialises it
InitialTranscriptionResult(session_id, audio_file_path, is_final) ==
    [status |-> 200,
     body |-> [session_id |-> session_id, audio_file_path |-> audio_file_path,
               text |-> <<>>, language |-> None, duration |-> None,
               metadata |-> None, segments |-> None, is_final |-> is_final]]

\* a KeywordDetector that is not constructed yet
NoDetector == [constructed |-> FALSE, keywords_cache |-> <<>>]

\* no call was made on the detector
NoCall == [op |-> "none", arg |-> <<>>, result |-> <<>>, failed |-> FALSE,
           keywords_cache |-> <<>>,   \* the cache the call found
           partial |-> <<>>]          \* the cache a load had built when it failed

\* the last call, the first call of detect_keywords, the keywords table as
\* that first call found it, and whether get_talking_points ran since
NoCalls == [last |-> NoCall, first |-> NoCall, stored |-> <<>>, lookups |-> FALSE]

\* no request was made to a keyword endpoint
NoRequest == [op |-> "none", id |-> 0, keyword |-> <<>>, response |-> NoResponse]

\* the last request, the one before it, the kinds of successful writes that
\* were followed at once by a GET of the same id, and the next value of the
\* sequence behind keywords.id
NoRequests == [last |-> NoRequest, prev |-> NoRequest, read_after |-> {}, next_id |-> 1]

\* the dict of lines 132-136, not yet created
NoSessionData ==
    [created |-> FALSE, chunks |-> <<>>, partial_transcripts |-> <<>>,
     last_sequence |-> -1,
     accepted |-> <<>>]   \* history: the sequence numbers accepted, in order

NewSessionData == [NoSessionData EXCEPT !.created = TRUE]

NoTask ==
    [kind |-> "none", proc |-> SharedProc, session_id |-> None,
     sequence_number |-> 0, is_final |-> FALSE,
     pc |-> "none", outcome |-> "none",
     session_data |-> NoRef,            \* the local session_data: a state dict
     segments |-> <<>>,              \* transcription_result.segments
     detected_keywords_list |-> <<>>,
     pending |-> <<>>,               \* KEYWORD_DETECTED payloads still to send
     events |-> <<>>,                \* the send_notification calls made
     raised |-> FALSE,               \* an exception reached the caller
     all_segments |-> <<>>,          \* the local all_segments, each segment with
                                     \*   the sequence number of its chunk (origin)
     accepted |-> FALSE,             \* passed the check of line 140
     temp_path |-> FALSE,            \* the temporary audio file was written
     response |-> NoResponse,        \* what the endpoint answered the request
     stale |-> FALSE,                \* history: when submitted, a chunk of the session
                                     \*   with this or a higher number had been accepted
     late |-> FALSE]                 \* history: the same, when checked at line 140

\* a WebSocket nobody has connected yet
NoSocket ==
    [state |-> "new",        \* "new", "open" (registered), "gone"
     session_id |-> None,
     broken |-> FALSE,       \* the client is gone: sends and receives raise
     raised |-> FALSE,       \* websocket_endpoint ended in an exception
     pruned |-> FALSE,       \* history: lines 130-132 have removed it
     missed |-> {}]          \* history: the broadcasts of its session that had
                             \*   ended when it registered

\* a send_notification call not made yet.  The locals and the history of a
\* call are kept while it runs and dropped when it returns.
NoBroadcast ==
    [state |-> "none",       \* "none", "delivering" (inside send_text), "done"
     session_id |-> None,
     broker |-> TRUE,        \* the publish of lines 67-71 succeeded
     raised |-> FALSE,       \* broadcast_notification ended in an exception
     list |-> NoRef,         \* the list object the loop of line 110 iterates
     index |-> 0,            \* the position of the list iterator
     current |-> NoRef,      \* the connection being sent to
     connections_to_remove |-> <<>>,
     attempted |-> <<>>,     \* history: the connections send_text was called on
     delivered |-> <<>>,     \* history: the connections send_text returned for
     snapshot |-> <<>>,      \* history: the list of the session when it began
     disturbed |-> FALSE]    \* history: the list of the session was changed by
                             \*   somebody else while it was delivering

Init ==
    /\ active_connections = [s \in Sessions |-> NoRef]
    /\ connection_lists = [l \in Handles |-> <<>>]
    /\ websockets = [h \in Handles |-> NoSocket]
    /\ broadcasts = [p \in PublishIds |-> NoBroadcast]
    /\ api_key \in BOOLEAN
    /\ db_sessions = KnownSessions
    /\ transcripts = <<>>
    /\ active_sessions = [p \in Procs |-> [s \in Sessions |-> NoRef]]
    /\ heap = [o \in TaskIds |-> NoSessionData]
    /\ tasks = [t \in TaskIds |-> NoTask]
    /\ temp_files = {}
    /\ keywords_table = <<>>
    /\ detector = NoDetector
    /\ detector_calls = NoCalls
    /\ keyword_requests = NoRequests

\* the next unused call slot
NextTask == CHOOSE t \in TaskIds : tasks[t].kind = "none" /\ \A u \in 1..(t - 1) : tasks[u].kind # "none"

\* calls made so far
Submitted == Cardinality({t \in TaskIds : tasks[t].kind # "none"})

Returned(t) == tasks[t].pc = "done"

(***************************************************************************)
(* AudioProcessor.process_audio_chunk_and_save                             *)
(***************************************************************************)

Event(tk, type, payload) ==
    [type |-> type, session_id |-> tk.session_id, payload |-> payload]

\* A faulty order of notifications: the newest one overtakes those sent before.
EmitFirst(tk, type, payload) ==
    [tk EXCEPT !.events = <<Event(tk, type, payload)>> \o @]

\* the notification is sent: the events of a call in the order of their sending
Emit(tk, type, payload) ==
    [tk EXCEPT !.events = Append(@, Event(tk, type, payload))]

\* lines 218-224: the handler of the outer try.  g says whether the ERROR
\* notification raises; the call returns unless it does.
HandleError(tk, cause, g) ==
    [Emit(tk, "error", [error |-> cause])
        EXCEPT !.pc = "done", !.outcome = "failed", !.pending = <<>>,
               !.raised = g]

\* process_audio_file_and_save, lines 100-114: the handler of its outer try
HandleFileError(tk, cause, g) ==
    [(IF cause = "TRANSCRIPTION_COMPLETE"
      THEN Emit(tk, "transcription_complete", [status |-> "complete"])
      ELSE Emit(tk, "error", [error |-> cause]))
        EXCEPT !.pc = "done", !.outcome = "failed", !.pending = <<>>,
               !.raised = g]

Handle(tk, cause, g) ==
    IF tk.kind = "file" THEN HandleFileError(tk, cause, g) ELSE HandleError(tk, cause, g)

\* `await send_notification(...)` inside the try body (f: it raises), then
\* suspension at pc
TrySend(tk, type, payload, pc, f, g) ==
    IF f
    THEN Handle(Emit(tk, type, payload), "send_notification failed", g)
    ELSE [Emit(tk, type, payload) EXCEPT !.pc = pc]

\* A faulty line 140 that compares with < : a repeated number passes.
IsStaleStrict(sequence_number, last_sequence) == sequence_number < last_sequence

\* line 140: the chunk is dropped
IsStale(sequence_number, last_sequence) == sequence_number <= last_sequence

\* A faulty order of lines 138-144: last_sequence is assigned whatever the
\* comparison says.
CheckAndSetEager(sd, sequence_number) ==
    [accepted |-> ~IsStale(sequence_number, sd.last_sequence),
     data |-> [sd EXCEPT !.last_sequence = sequence_number,
                         !.accepted = IF IsStale(sequence_number, sd.last_sequence)
                                      THEN @ ELSE Append(@, sequence_number)]]

\* lines 138-144 on the state dict sd: whether the chunk is accepted, and the
\* dict afterwards
CheckAndSet(sd, sequence_number) ==
    IF IsStale(sequence_number, sd.last_sequence)
    THEN [accepted |-> FALSE, data |-> sd]
    ELSE [accepted |-> TRUE,
          data |-> [sd EXCEPT !.last_sequence = sequence_number,
                              !.accepted = Append(@, sequence_number)]]

RECURSIVE InsertChunk(_, _)
InsertChunk(sorted, c) ==
    IF sorted = <<>> THEN <<c>>
    ELSE IF Head(sorted).sequence_number <= c.sequence_number
    THEN <<Head(sorted)>> \o InsertChunk(Tail(sorted), c)
    ELSE <<c>> \o sorted

\* A faulty line 178 that leaves the buffer in the order of completion.
CompletionOrder(chunks) == chunks

RECURSIVE SortBySequence(_)
\* sorted(chunks, key=sequence_number): ascending and stable
SortBySequence(chunks) ==
    IF chunks = <<>> THEN <<>>
    ELSE InsertChunk(SortBySequence(SubSeq(chunks, 1, Len(chunks) - 1)), chunks[Len(chunks)])

\* lines 178-180; every segment is marked with the chunk it comes from
AllSegments(chunks) ==
    LET sorted == SortBySequence(chunks)
    IN Flatten([i \in 1..Len(sorted) |->
            [k \in 1..Len(sorted[i].segments) |->
                sorted[i].segments[k] @@ [origin |-> sorted[i].sequence_number,
                                          call |-> sorted[i].call]]])

\* A faulty line 182 that joins the texts with nothing between them.
FullTextUnspaced(segments) == Join([i \in 1..Len(segments) |-> segments[i].text], <<>>)

\* line 182
FullText(segments) == Join([i \in 1..Len(segments) |-> segments[i].text], <<" ">>)

\* line 188
Duration(segments) == IF segments = <<>> THEN NoDuration ELSE segments[Len(segments)].end_time

\* crud.create_transcript: nothing is stored for a session storage does not
\* know.  TranscriptionResult has no field meta_data, so the keyword argument
\* of line 189 is dropped and the stored meta_data is None.
create_transcript(rows, sessions, session_id, text, duration) ==
    IF session_id \notin sessions THEN rows
    ELSE Append(rows, [session_id |-> session_id, text |-> text, language |-> "en",
                       duration |-> duration, meta_data |-> None])

\* crud.delete_audio_session: the row of the session is deleted, and with it
\* its transcripts (cascade of the relationship)
delete_audio_session(session_id) ==
    /\ session_id \in db_sessions
    /\ db_sessions' = db_sessions \ {session_id}
    /\ transcripts' = SelectSeq(transcripts, LAMBDA row : row.session_id # session_id)
    /\ UNCHANGED <<api_key, active_sessions, heap, tasks, temp_files>>
    /\ UNCHANGED <<notification_vars, detector_vars>>

\* A faulty clean-up that unlinks the file on the successful path only.
LeaveFile(t, tk) == temp_files

\* the finally clause of lines 214-216 runs whenever the call leaves the try
Unlink(t, tk) == IF tk.pc = "done" THEN temp_files \ {t} ELSE temp_files

\* A chunk of the session with this or a higher number was accepted before.
AcceptedBefore(session_id, sequence_number) ==
    \E u \in TaskIds :
        /\ tasks[u].kind = "chunk" /\ tasks[u].accepted
        /\ tasks[u].session_id = session_id
        /\ tasks[u].sequence_number >= sequence_number

\* lines 131-151, up to the suspension inside transcribe_chunk
Accept(t) ==
    /\ tasks[t].kind = "chunk" /\ tasks[t].pc = "queued"
    /\ \E g \in SendRaises :
        LET tk == tasks[t]
            p == tk.proc
            sid == tk.session_id
            seq == tk.sequence_number
            fresh == active_sessions[p][sid] = NoRef
            o == IF fresh THEN t ELSE active_sessions[p][sid]
            sd == IF fresh THEN NewSessionData ELSE heap[o]
            cas == CheckAndSet(sd, seq)
            tk1 == [tk EXCEPT !.session_data = o,
                              !.late = AcceptedBefore(sid, seq)]
            tk2 == [tk1 EXCEPT !.accepted = TRUE, !.temp_path = TRUE]
        IN /\ active_sessions' = [active_sessions EXCEPT ![p][sid] = o]
           /\ heap' = [heap EXCEPT ![o] = cas.data]
           /\ IF ~cas.accepted
              THEN /\ tasks' = [tasks EXCEPT ![t] =
                                   [tk1 EXCEPT !.pc = "done", !.outcome = "rejected"]]
                   /\ UNCHANGED temp_files
              ELSE /\ IF ~api_key
                      THEN \* transcribe_chunk raises ValueError at once
                           /\ tasks' = [tasks EXCEPT ![t] =
                                  HandleError(tk2, "OpenAI API key is not configured", g)]
                           /\ UNCHANGED temp_files
                      ELSE /\ tasks' = [tasks EXCEPT ![t] = [tk2 EXCEPT !.pc = "transcribing"]]
                           /\ temp_files' = temp_files \cup {t}
    /\ UNCHANGED <<api_key, db_sessions, transcripts>>
    /\ UNCHANGED <<notification_vars, detector_vars>>

\* lines 171-213: record the chunk, then finalise or report the partial result
RecordChunk(t, tk, f, g) ==
    LET o == tk.session_data
        sd == [heap[o] EXCEPT !.chunks =
                  Append(@, [sequence_number |-> tk.sequence_number,
                             segments |-> tk.segments,
                             call |-> t])]   \* history: the call that appended it
        all_segments == AllSegments(sd.chunks)
        full_text == FullText(all_segments)
        tkf == [tk EXCEPT !.all_segments = all_segments]
    IN /\ heap' = [heap EXCEPT ![o] = sd]
       /\ IF tk.is_final
          THEN \E stored \in BOOLEAN :
                 IF stored
                 THEN /\ transcripts' = create_transcript(transcripts, db_sessions,
                                            tk.session_id, full_text, Duration(all_segments))
                      /\ tasks' = [tasks EXCEPT ![t] =
                             TrySend(tkf, "transcription_complete",
                                     [transcript |-> full_text,
                                      detected_keywords |-> tk.detected_keywords_list],
                                     "completing", f, g)]
                 ELSE /\ tasks' = [tasks EXCEPT ![t] = HandleError(tkf, "storage failed", g)]
                      /\ UNCHANGED transcripts
          ELSE /\ tasks' = [tasks EXCEPT ![t] =
                      TrySend(tk, "partial_transcription",
                              [segments |-> tk.segments,
                               detected_keywords |-> tk.detected_keywords_list],
                              "closing", f, g)]
               /\ UNCHANGED transcripts
       /\ temp_files' = Unlink(t, tasks'[t])

\* the loop of lines 154-169 from the next pending notification on
Continue(t, tk, f, g) ==
    IF tk.pending # <<>>
    THEN /\ tasks' = [tasks EXCEPT ![t] =
                TrySend([tk EXCEPT !.pending = Tail(@)], "keyword_detected",
                        Head(tk.pending), "notifying", f, g)]
         /\ temp_files' = Unlink(t, tasks'[t])
         /\ UNCHANGED <<heap, transcripts>>
    ELSE RecordChunk(t, tk, f, g)

\* detect_keywords on every segment (lines 154-157)
Matched(segments) ==
    [i \in 1..Len(segments) |->
        [segments[i] EXCEPT !.detected_keywords = detect_keywords(keywords_cache, segments[i].text)]]

\* the KEYWORD_DETECTED payloads of lines 160-169, in the order they are sent
KeywordPayloads(segments) ==
    Flatten([i \in 1..Len(segments) |->
        [k \in 1..Len(segments[i].detected_keywords) |->
            [keyword |-> segments[i].detected_keywords[k],
             segment |-> segments[i].text,
             timestamp |-> segments[i].start_time]]])

\* A faulty order of lines 151-175: the chunk is put into the buffer before
\* it is transcribed, so it is there when the transcription raises.
RecordedBeforeTranscription(t, tk) ==
    [heap EXCEPT ![tk.session_data].chunks =
        Append(@, [sequence_number |-> tk.sequence_number, segments |-> <<>>, call |-> t])]

\* the state dicts when transcribe_chunk raises: line 171 is not reached
RaisedBeforeRecording(t, tk) == heap

\* transcribe_chunk returns or raises, and the call runs on to its next
\* suspension
TranscribeDoneWith(t, responses) ==
    /\ tasks[t].kind = "chunk" /\ tasks[t].pc = "transcribing"
    /\ \E resp \in responses, f \in SendRaises, g \in SendRaises :
        IF resp = "error"
        THEN /\ tasks' = [tasks EXCEPT ![t] = HandleError(tasks[t], "transcription failed", g)]
             /\ temp_files' = Unlink(t, tasks'[t])
             /\ heap' = RaisedBeforeRecording(t, tasks[t])
             /\ UNCHANGED transcripts
        ELSE LET segments == Matched(SegmentsOf(resp, t))
                 tk == [tasks[t] EXCEPT
                          !.segments = segments,
                          !.detected_keywords_list =
                              Flatten([i \in 1..Len(segments) |-> segments[i].detected_keywords]),
                          !.pending = KeywordPayloads(segments)]
             IN Continue(t, tk, f, g)
    /\ UNCHANGED <<api_key, db_sessions, active_sessions>>
    /\ UNCHANGED <<notification_vars, detector_vars>>

TranscribeDone(t) == TranscribeDoneWith(t, Responses)

\* a KEYWORD_DETECTED notification returns
Notified(t) ==
    /\ tasks[t].kind = "chunk" /\ tasks[t].pc = "notifying"
    /\ \E f \in SendRaises, g \in SendRaises : Continue(t, tasks[t], f, g)
    /\ UNCHANGED <<api_key, db_sessions, active_sessions>>
    /\ UNCHANGED <<notification_vars, detector_vars>>

\* the PARTIAL_TRANSCRIPTION notification returns: finally, return
ClosePartial(t) ==
    /\ tasks[t].kind = "chunk" /\ tasks[t].pc = "closing"
    /\ tasks' = [tasks EXCEPT ![t] = [@ EXCEPT !.pc = "done", !.outcome = "ok"]]
    /\ temp_files' = temp_files \ {t}
    /\ UNCHANGED <<api_key, db_sessions, transcripts, active_sessions, heap>>
    /\ UNCHANGED <<notification_vars, detector_vars>>

\* the TRANSCRIPTION_COMPLETE notification returns: line 204, finally, return
CloseFinal(t) ==
    /\ tasks[t].kind = "chunk" /\ tasks[t].pc = "completing"
    /\ \E g \in SendRaises :
        LET tk == tasks[t] IN
        IF active_sessions[tk.proc][tk.session_id] = NoRef
        THEN \* del raises KeyError
             /\ tasks' = [tasks EXCEPT ![t] = HandleError(tk, "KeyError", g)]
             /\ UNCHANGED active_sessions
        ELSE /\ active_sessions' = [active_sessions EXCEPT ![tk.proc][tk.session_id] = NoRef]
             /\ tasks' = [tasks EXCEPT ![t] = [tk EXCEPT !.pc = "done", !.outcome = "ok"]]
    /\ temp_files' = temp_files \ {t}
    /\ UNCHANGED <<api_key, db_sessions, transcripts, heap>>
    /\ UNCHANGED <<notification_vars, detector_vars>>

(***************************************************************************)
(* AudioProcessor.process_audio_file_and_save                              *)
(***************************************************************************)

\* What transcribe_file ends in: as for a chunk, or a failure whose message
\* is the string the handler of line 101 compares with.
FileResponses == Responses \cup {"sentinel"}

\* lines 45-51, up to the suspension inside transcribe_file
StartFile(t) ==
    /\ tasks[t].kind = "file" /\ tasks[t].pc = "queued"
    /\ \E g \in SendRaises :
        IF ~api_key
        THEN /\ tasks' = [tasks EXCEPT ![t] =
                    HandleFileError([tasks[t] EXCEPT !.temp_path = TRUE],
                                    "OpenAI API key is not configured", g)]
             /\ UNCHANGED temp_files
        ELSE /\ tasks' = [tasks EXCEPT ![t] =
                    [@ EXCEPT !.pc = "transcribing", !.temp_path = TRUE]]
             /\ temp_files' = temp_files \cup {t}
    /\ UNCHANGED <<api_key, db_sessions, transcripts, active_sessions, heap>>
    /\ UNCHANGED <<notification_vars, detector_vars>>

\* lines 71-94: persist the transcript and report completion
PersistFile(t, tk, f, g) ==
    LET full_text == FullText(tk.segments)
    IN /\ \E stored \in BOOLEAN :
            IF stored
            THEN /\ transcripts' = create_transcript(transcripts, db_sessions,
                                       tk.session_id, full_text, Duration(tk.segments))
                 /\ tasks' = [tasks EXCEPT ![t] =
                        TrySend(tk, "transcription_complete",
                                [transcript |-> full_text,
                                 detected_keywords |-> tk.detected_keywords_list],
                                "closing", f, g)]
            ELSE /\ tasks' = [tasks EXCEPT ![t] = HandleFileError(tk, "storage failed", g)]
                 /\ UNCHANGED transcripts
       /\ temp_files' = Unlink(t, tasks'[t])

\* the loop of lines 54-69 from the next pending notification on
ContinueFile(t, tk, f, g) ==
    IF tk.pending # <<>>
    THEN /\ tasks' = [tasks EXCEPT ![t] =
                TrySend([tk EXCEPT !.pending = Tail(@)], "keyword_detected",
                        Head(tk.pending), "notifying", f, g)]
         /\ temp_files' = Unlink(t, tasks'[t])
         /\ UNCHANGED transcripts
    ELSE PersistFile(t, tk, f, g)

\* transcribe_file returns or raises, and the call runs on to its next
\* suspension
FileTranscribed(t) ==
    /\ tasks[t].kind = "file" /\ tasks[t].pc = "transcribing"
    /\ \E resp \in FileResponses, f \in SendRaises, g \in SendRaises :
        IF resp \in {"error", "sentinel"}
        THEN /\ tasks' = [tasks EXCEPT ![t] =
                    HandleFileError(tasks[t],
                        IF resp = "sentinel" THEN "TRANSCRIPTION_COMPLETE"
                        ELSE "transcription failed", g)]
             /\ temp_files' = Unlink(t, tasks'[t])
             /\ UNCHANGED transcripts
        ELSE LET segments == Matched(SegmentsOf(resp, t))
                 tk == [tasks[t] EXCEPT
                          !.segments = segments,
                          !.detected_keywords_list =
                              Flatten([i \in 1..Len(segments) |-> segments[i].detected_keywords]),
                          !.pending = KeywordPayloads(segments)]
             IN ContinueFile(t, tk, f, g)
    /\ UNCHANGED <<api_key, db_sessions, active_sessions, heap>>
    /\ UNCHANGED <<notification_vars, detector_vars>>

\* a KEYWORD_DETECTED notification of a file returns
FileNotified(t) ==
    /\ tasks[t].kind = "file" /\ tasks[t].pc = "notifying"
    /\ \E f \in SendRaises, g \in SendRaises : ContinueFile(t, tasks[t], f, g)
    /\ UNCHANGED <<api_key, db_sessions, active_sessions, heap>>
    /\ UNCHANGED <<notification_vars, detector_vars>>

\* the TRANSCRIPTION_COMPLETE notification of a file returns: finally, return
CloseFile(t) ==
    /\ tasks[t].kind = "file" /\ tasks[t].pc = "closing"
    /\ tasks' = [tasks EXCEPT ![t] = [@ EXCEPT !.pc = "done", !.outcome = "ok"]]
    /\ temp_files' = temp_files \ {t}
    /\ UNCHANGED <<api_key, db_sessions, transcripts, active_sessions, heap>>
    /\ UNCHANGED <<notification_vars, detector_vars>>

\* one uninterrupted run of a background task
ChunkStep(t) ==
    \/ Accept(t)
    \/ TranscribeDone(t)
    \/ Notified(t)
    \/ ClosePartial(t)
    \/ CloseFinal(t)

FileStep(t) ==
    \/ StartFile(t)
    \/ FileTranscribed(t)
    \/ FileNotified(t)
    \/ CloseFile(t)

Step(t) == ChunkStep(t) \/ FileStep(t)

(***************************************************************************)
(* Callers                                                                 *)
(***************************************************************************)

NewChunkTask(proc, session_id, sequence_number, is_final) ==
    [NoTask EXCEPT !.kind = "chunk", !.proc = proc, !.session_id = session_id,
                   !.sequence_number = sequence_number, !.is_final = is_final,
                   !.pc = "queued",
                   !.stale = AcceptedBefore(session_id, sequence_number)]

NewFileTask(proc, session_id) ==
    [NoTask EXCEPT !.kind = "file", !.proc = proc, !.session_id = session_id,
                   !.is_final = TRUE, !.pc = "queued"]

\* A faulty endpoint without the check of the session: the background task
\* is scheduled whatever storage knows.
ScheduleUnchecked(kind, session_id) ==
    IF kind = "chunk"
    THEN NewChunkTask(NextTask, session_id, 3, FALSE)
    ELSE NewFileTask(NextTask, session_id)

\* the request is answered 404 and no background task is scheduled
NotFound(kind, session_id) ==
    [NoTask EXCEPT !.kind = kind, !.session_id = session_id,
                   !.pc = "done", !.outcome = "http404",
                   !.response = HTTPException(404, "Audio session not found")]

\* what is wrong with an uploaded file, if anything: its size, the extension
\* of its name, or the writing of its copy to the storage path
Uploads == {"ok", "too large", "unsupported format", "write fails"}

\* upload_audio answers 413, 415 or 500 and no background task is scheduled
Refused(session_id, upload) ==
    LET response == CASE upload = "too large" -> HTTPException(413, "File too large")
                      [] upload = "unsupported format" ->
                             HTTPException(415, "Unsupported file format")
                      [] OTHER -> HTTPException(500, "Error processing audio")
    IN [NoTask EXCEPT !.kind = "file", !.session_id = session_id,
                      !.pc = "done",
                      !.outcome = IF response.status = 413 THEN "http413"
                                  ELSE IF response.status = 415 THEN "http415"
                                  ELSE "http500",
                      !.response = response]

\* a caller starts process_audio_chunk_and_save on the shared instance
CallChunk(session_id, sequence_number, is_final) ==
    /\ Submitted < MaxTasks
    /\ tasks' = [tasks EXCEPT ![NextTask] =
                    NewChunkTask(SharedProc, session_id, sequence_number, is_final)]
    /\ UNCHANGED <<api_key, db_sessions, transcripts, active_sessions, heap, temp_files>>
    /\ UNCHANGED <<notification_vars, detector_vars>>

\* a caller starts process_audio_file_and_save on the shared instance
CallFile(session_id) ==
    /\ Submitted < MaxTasks
    /\ tasks' = [tasks EXCEPT ![NextTask] = NewFileTask(SharedProc, session_id)]
    /\ UNCHANGED <<api_key, db_sessions, transcripts, active_sessions, heap, temp_files>>
    /\ UNCHANGED <<notification_vars, detector_vars>>

\* POST /audio/chunks/: 404 for a session storage does not know, else a new
\* AudioProcessor and process_audio_chunk_and_save on it as a background task
process_audio_chunk(session_id, sequence_number, is_final) ==
    /\ tasks' = [tasks EXCEPT ![NextTask] =
                    IF session_id \notin db_sessions
                    THEN NotFound("chunk", session_id)
                    ELSE [NewChunkTask(NextTask, session_id, sequence_number, is_final)
                            EXCEPT !.response =
                                InitialTranscriptionResult(session_id,
                                    IF is_final THEN "file_path" ELSE None, is_final)]]
    /\ UNCHANGED <<api_key, db_sessions, transcripts, active_sessions, heap, temp_files>>
    /\ UNCHANGED <<notification_vars, detector_vars>>

\* POST /audio/upload/: 404 for a session storage does not know, else a new
\* AudioProcessor and process_audio_file_and_save on it as a background task
upload_audio(session_id, upload) ==
    /\ tasks' = [tasks EXCEPT ![NextTask] =
                    IF session_id \notin db_sessions
                    THEN NotFound("file", session_id)
                    ELSE IF upload # "ok"
                    THEN Refused(session_id, upload)
                    ELSE [NewFileTask(NextTask, session_id)
                            EXCEPT !.response =
                                InitialTranscriptionResult(session_id, "file_path", FALSE)]]
    /\ UNCHANGED <<api_key, db_sessions, transcripts, active_sessions, heap, temp_files>>
    /\ UNCHANGED <<notification_vars, detector_vars>>

RequestChunk(session_id, sequence_number, is_final) ==
    /\ Submitted < MaxTasks
    /\ process_audio_chunk(session_id, sequence_number, is_final)

RequestUpload(session_id, upload) ==
    /\ Submitted < MaxTasks
    /\ upload_audio(session_id, upload)

\* the next chunk of the scenario is posted once every earlier one has been
\* processed to completion
ScenarioRequest ==
    /\ Submitted < Len(ChunkScenario)
    /\ \A t \in TaskIds : tasks[t].kind # "none" => Returned(t)
    /\ process_audio_chunk("s1", ChunkScenario[Submitted + 1].sequence_number,
                           ChunkScenario[Submitted + 1].is_final)

(***************************************************************************)
(* The registry of WebSocket connections: websocket_endpoint               *)
(***************************************************************************)

\* list.remove(h): the first occurrence goes
RemoveFirst(list, h) ==
    IF \A i \in 1..Len(list) : list[i] # h THEN list
    ELSE LET k == CHOOSE i \in 1..Len(list) :
                      list[i] = h /\ \A j \in 1..(i - 1) : list[j] # h
         IN SubSeq(list, 1, k - 1) \o SubSeq(list, k + 1, Len(list))

InList(list, h) == \E i \in 1..Len(list) : list[i] = h

\* list.count(h)
Count(list, h) == Cardinality({i \in 1..Len(list) : list[i] = h})

\* the list registered for a session, empty when the session has no entry
Registered(session_id) ==
    IF active_connections[session_id] = NoRef THEN <<>>
    ELSE connection_lists[active_connections[session_id]]

\* A registry whose entries are kept when their list runs empty.
KeepEntry(l, list) == l

\* lines 75-76 and 90-91: the entry of a session whose list is l after a removal
EntryAfterRemoval(l, list) == IF list = <<>> THEN NoRef ELSE l

\* lines 29-31 for WebSocket h: the entry of the session and the lists afterwards
Register(session_id, h) ==
    LET l == IF active_connections[session_id] = NoRef THEN h
             ELSE active_connections[session_id]
    IN [entries |-> [active_connections EXCEPT ![session_id] = l],
        lists |-> [connection_lists EXCEPT ![l] = Append(@, h)]]

\* the broadcasts delivering to a session see its list change under them
Disturb(bs, session_id) ==
    [p \in PublishIds |->
        IF bs[p].state = "delivering" /\ bs[p].session_id = session_id
        THEN [bs[p] EXCEPT !.disturbed = TRUE] ELSE bs[p]]

\* the broadcasts of a session that have ended
Ended(session_id) ==
    {p \in PublishIds : broadcasts[p].state = "done" /\ broadcasts[p].session_id = session_id}

\* A registration that hands the new connection every event already sent.
ReplayAll(session_id) == Ended(session_id)

\* lines 33-40: what a new connection is sent of the events published before
\* it registered: nothing, only the connection confirmation.
ReplayedOnConnect(session_id) == {}

\* a client connects: lines 26-31, up to the send of line 35
Connect(h, session_id) ==
    /\ websockets[h].state = "new"
    /\ \A g \in 1..(h - 1) : websockets[g].state # "new"
    /\ LET r == Register(session_id, h) IN
        /\ active_connections' = r.entries
        /\ connection_lists' = r.lists
    /\ websockets' = [websockets EXCEPT ![h] =
            [@ EXCEPT !.state = "open", !.session_id = session_id,
                      !.missed = Ended(session_id)]]
    /\ broadcasts' = [p \in PublishIds |->
            IF p \in ReplayedOnConnect(session_id)
            THEN [broadcasts[p] EXCEPT !.delivered = Append(@, h)]
            ELSE Disturb(broadcasts, session_id)[p]]
    /\ UNCHANGED <<audio_vars, detector_vars>>

\* the client goes away; its endpoint has not noticed yet
Break(h) ==
    /\ websockets[h].state = "open" /\ ~websockets[h].broken
    /\ websockets' = [websockets EXCEPT ![h].broken = TRUE]
    /\ UNCHANGED <<active_connections, connection_lists, broadcasts>>
    /\ UNCHANGED <<audio_vars, detector_vars>>

\* lines 72-76: WebSocketDisconnect out of the send of line 35; remove raises
\* KeyError or ValueError when the session or the connection is not there
RemoveUnguarded(h) ==
    LET s == websockets[h].session_id
        l == active_connections[s]
    IN IF l = NoRef \/ ~InList(connection_lists[l], h)
       THEN /\ websockets' = [websockets EXCEPT ![h] = [@ EXCEPT !.state = "gone", !.raised = TRUE]]
            /\ UNCHANGED <<active_connections, connection_lists, broadcasts>>
       ELSE LET list == RemoveFirst(connection_lists[l], h) IN
            /\ connection_lists' = [connection_lists EXCEPT ![l] = list]
            /\ active_connections' = [active_connections EXCEPT ![s] = EntryAfterRemoval(l, list)]
            /\ websockets' = [websockets EXCEPT ![h].state = "gone"]
            /\ broadcasts' = Disturb(broadcasts, s)

\* lines 77-91: any other exception; the clean-up is guarded
RemoveGuarded(h) ==
    LET s == websockets[h].session_id
        l == active_connections[s]
    IN /\ websockets' = [websockets EXCEPT ![h].state = "gone"]
       /\ IF l # NoRef /\ InList(connection_lists[l], h)
          THEN LET list == RemoveFirst(connection_lists[l], h) IN
               /\ connection_lists' = [connection_lists EXCEPT ![l] = list]
               /\ active_connections' = [active_connections EXCEPT ![s] = EntryAfterRemoval(l, list)]
               /\ broadcasts' = Disturb(broadcasts, s)
          ELSE UNCHANGED <<active_connections, connection_lists, broadcasts>>

\* The endpoint of a client that is gone ends.  If the client left before
\* the send of line 35 returned, that send raises WebSocketDisconnect (line
\* 72) or another exception (line 77), depending on the transport; the send
\* may stay suspended for any time, so whether it had returned is not
\* recorded.  In the loop every exception reaches line 68, where the
\* undefined name `logger` raises NameError, which line 77 catches.
Disconnect(h) ==
    /\ websockets[h].state = "open" /\ websockets[h].broken
    /\ \/ RemoveUnguarded(h)
       \/ RemoveGuarded(h)
    /\ UNCHANGED <<audio_vars, detector_vars>>

\* websocket_endpoint entered again with a handle that is registered
\* already and whose accept (line 26) returns again: lines 29-31 once more.
\* Nothing in lines 26-31 looks whether the handle is in the list.
Resubscribe(h) ==
    /\ websockets[h].state = "open"
    /\ InList(Registered(websockets[h].session_id), h)
    /\ Count(Registered(websockets[h].session_id), h) < MaxRegistrations
    /\ LET r == Register(websockets[h].session_id, h) IN
        /\ active_connections' = r.entries
        /\ connection_lists' = r.lists
    /\ broadcasts' = Disturb(broadcasts, websockets[h].session_id)
    /\ UNCHANGED websockets
    /\ UNCHANGED <<audio_vars, detector_vars>>

(***************************************************************************)
(* NotificationService.send_notification and broadcast_notification        *)
(***************************************************************************)

\* A loop without the try of line 111: the exception of send_text leaves it.
DeliveryAborts(b) == [b EXCEPT !.raised = TRUE]

\* lines 124-127: send_text raised
DeliveryFailed(b) == [b EXCEPT !.connections_to_remove = Append(@, b.current)]

\* line 123 returned
DeliverySucceeded(b) == [b EXCEPT !.delivered = Append(@, b.current)]

\* A clean-up that removes nothing.
PruneNothing(list, connections_to_remove) == list

RECURSIVE Prune(_, _)
\* lines 130-132 on the list registered for the session
Prune(list, connections_to_remove) ==
    IF connections_to_remove = <<>> THEN list
    ELSE Prune(RemoveFirst(list, Head(connections_to_remove)), Tail(connections_to_remove))

\* A registry that is not keyed by session: the list of whichever session
\* has one.
ConnectionsOfAny(session_id) ==
    IF \A s \in Sessions : active_connections[s] = NoRef THEN NoRef
    ELSE active_connections[CHOOSE s \in Sessions : active_connections[s] # NoRef]

\* lines 107-110 and 131-132: active_connections[session_id], the list
\* object of the session of the notification, NoRef when it has no entry
ConnectionsOf(session_id) == active_connections[session_id]

\* the iterator of line 110 on the live list object: is there a next element
HasNext(b) == b.index < Len(connection_lists[b.list])

\* the loop takes the next connection and suspends in send_text
Fetch(b) ==
    LET h == connection_lists[b.list][b.index + 1]
    IN [b EXCEPT !.index = @ + 1, !.current = h, !.attempted = Append(@, h)]

\* the call has returned
Close(b) ==
    [NoBroadcast EXCEPT !.state = "done", !.session_id = b.session_id,
                        !.broker = b.broker, !.raised = b.raised]

\* after the loop: lines 130-132, then the call returns to send_notification,
\* which logs an exception (lines 76-77)
Finish(p, b) ==
    LET s == b.session_id
        l == ConnectionsOf(s)
    IN IF b.raised \/ b.connections_to_remove = <<>>
       THEN /\ broadcasts' = [broadcasts EXCEPT ![p] = Close(b)]
            /\ UNCHANGED <<active_connections, connection_lists, websockets>>
       ELSE IF l = NoRef
       THEN \* active_connections[session_id] raises KeyError
            /\ broadcasts' = [broadcasts EXCEPT ![p] = Close([b EXCEPT !.raised = TRUE])]
            /\ UNCHANGED <<active_connections, connection_lists, websockets>>
       ELSE LET list == Prune(connection_lists[l], b.connections_to_remove) IN
            /\ connection_lists' = [connection_lists EXCEPT ![l] = list]
            /\ websockets' = [h \in Handles |->
                   IF InList(connection_lists[l], h) /\ ~InList(list, h)
                   THEN [websockets[h] EXCEPT !.pruned = TRUE] ELSE websockets[h]]
            /\ broadcasts' =
                 [(IF list = connection_lists[l] THEN broadcasts ELSE Disturb(broadcasts, s))
                     EXCEPT ![p] = Close(b)]
            /\ UNCHANGED active_connections

\* the loop of line 110 from its next iteration on, up to the next suspension
Proceed(p, b) ==
    IF ~b.raised /\ HasNext(b)
    THEN /\ broadcasts' = [broadcasts EXCEPT ![p] = Fetch(b)]
         /\ UNCHANGED <<active_connections, connection_lists, websockets>>
    ELSE Finish(p, b)

\* send_notification for a session: the publish to the broker (lines 67-71)
\* succeeds or raises; if it raises, line 79 logs and the call returns; else
\* broadcast_notification runs up to its first send_text
Publish(p, session_id, broker) ==
    /\ broadcasts[p].state = "none"
    /\ \A q \in 1..(p - 1) : broadcasts[q].state # "none"
    /\ LET b == [NoBroadcast EXCEPT
                    !.session_id = session_id, !.broker = broker,
                    !.list = ConnectionsOf(session_id),
                    !.snapshot = Registered(session_id)]
       IN IF ~broker \/ ConnectionsOf(session_id) = NoRef
          THEN /\ broadcasts' = [broadcasts EXCEPT ![p] = Close(b)]
               /\ UNCHANGED <<active_connections, connection_lists, websockets>>
          ELSE Proceed(p, [b EXCEPT !.state = "delivering"])
    /\ UNCHANGED <<audio_vars, detector_vars>>

\* whether send_text on a connection returns
Sendable(h) == websockets[h].state = "open" /\ ~websockets[h].broken

\* the locals of broadcast p once its pending send_text has returned or raised
Outcome(p) ==
    LET b == broadcasts[p]
    IN IF Sendable(b.current) THEN DeliverySucceeded(b) ELSE DeliveryFailed(b)

\* send_text returns or raises, and the loop runs on to its next suspension
Deliver(p) ==
    /\ broadcasts[p].state = "delivering"
    /\ Proceed(p, Outcome(p))
    /\ UNCHANGED <<audio_vars, detector_vars>>

(***************************************************************************)
(* KeywordDetector as an object: construction, detect_keywords and         *)
(* get_talking_points on its keywords_cache, with the keywords table       *)
(* growing underneath                                                      *)
(***************************************************************************)

\* The rows POST /keywords/ creates, in order.  The endpoint refuses a text
\* that get_keyword_by_text finds already, so no two rows have the same
\* lowercased text.
KeywordRows ==
    StoredKeywords \o << [id |-> 3, text |-> <<"k">>, threshold |-> 8] >>

\* the ids of the talking_points rows of a keyword, by descending priority
TalkingPoints(id) ==
    CASE id = 1 -> <<11, 12>>
      [] id = 2 -> <<>>
      [] OTHER -> <<31>>

\* texts given to detect_keywords
DetectTexts ==
    { <<>>, NoText,
      <<"P", " ", "x">>, <<"p", "x", " ", "x">>, <<"p", "x">>, <<"o", "k">>, <<"X">> }

\* keywords given to get_talking_points
LookupKeywords == { <<"p">>, <<"X">>, <<"m">>, <<"_">> }

\* how the queries of get_talking_points end
Fetches == {"ok", "keyword query fails", "talking points query fails"}

RECURSIVE Like(_, _)
\* SQL LIKE: % stands for any run of characters, _ for any one character
Like(pattern, text) ==
    IF pattern = <<>> THEN text = <<>>
    ELSE IF Head(pattern) = "%"
    THEN Like(Tail(pattern), text) \/ (text # <<>> /\ Like(pattern, Tail(text)))
    ELSE /\ text # <<>>
         /\ Head(pattern) = "_" \/ Head(pattern) = Head(text)
         /\ Like(Tail(pattern), Tail(text))

\* Keyword.text.ilike(text)
ILike(column, pattern) == Like(Lower(pattern), Lower(column))

\* crud.get_keyword_by_text: the rows the filter lets through; first() takes
\* one of them, and no ORDER BY says which
KeywordsLike(table, text) == {i \in 1..Len(table) : ILike(table[i].text, text)}

\* keyword_lower in self.keywords_cache
Cached(cache, key) == \E i \in 1..Len(cache) : cache[i].key = key

CachedEntry(cache, key) == cache[CHOOSE i \in 1..Len(cache) : cache[i].key = key]

\* A faulty handler that leaves the cache as the failed load built it.
KeepLoaded(partial) == partial

\* lines 63-66: the handler of the load
OnLoadError(partial) == <<>>

\* _load_keywords_from_db on an empty cache.  fail_at = 0: get_keywords
\* raises; fail_at = k: the talking points query of row k raises, the rows
\* before it are in the cache by then; fail_at beyond the rows: no failure.
LoadFromDb(table, fail_at) ==
    LET failed == fail_at <= Len(table)
        partial == IF fail_at = 0 THEN <<>>
                   ELSE LoadKeywords(SubSeq(table, 1,
                            IF failed THEN fail_at - 1 ELSE Len(table)), <<>>)
    IN [failed |-> failed, partial |-> partial,
        cache |-> IF failed THEN OnLoadError(partial) ELSE partial]

\* A faulty detect_keywords that moves the entries it has hit to the front
\* of the cache.
PromoteHits(cache, hits) ==
    SelectSeq(cache, LAMBDA e : \E i \in 1..Len(hits) : hits[i].id = e.id)
        \o SelectSeq(cache, LAMBDA e : \A i \in 1..Len(hits) : hits[i].id # e.id)

\* detect_keywords only reads self.keywords_cache
CacheAfterDetect(cache, hits) == cache

\* KeywordDetector(db): lines 25-27
NewKeywordDetector(fail_at) ==
    /\ ~detector.constructed
    /\ LET load == LoadFromDb(keywords_table, fail_at) IN
        /\ detector' = [constructed |-> TRUE, keywords_cache |-> load.cache]
        /\ detector_calls' = [detector_calls EXCEPT !.last =
               [op |-> "load", arg |-> <<>>, result |-> <<>>, failed |-> load.failed,
                keywords_cache |-> detector.keywords_cache, partial |-> load.partial]]
    /\ UNCHANGED <<keywords_table, keyword_requests>>
    /\ UNCHANGED <<audio_vars, notification_vars>>

\* POST /keywords/ stores the next row
CreateKeyword ==
    /\ Len(keywords_table) < Len(KeywordRows)
    /\ keywords_table' = Append(keywords_table, KeywordRows[Len(keywords_table) + 1])
    /\ UNCHANGED <<detector, detector_calls, keyword_requests>>
    /\ UNCHANGED <<audio_vars, notification_vars>>

\* await detector.detect_keywords(text)
DetectKeywords(text) ==
    /\ detector.constructed
    /\ LET hits == detect_keywords(detector.keywords_cache, text)
           call == [op |-> "detect", arg |-> text, result |-> hits,
                    failed |-> hits = AttributeError,
                    keywords_cache |-> detector.keywords_cache, partial |-> <<>>]
       IN /\ detector' = [detector EXCEPT !.keywords_cache = CacheAfterDetect(@, hits)]
          /\ detector_calls' =
                [detector_calls EXCEPT
                    !.last = call,
                    !.first = IF @ = NoCall THEN call ELSE @,
                    !.stored = IF detector_calls.first = NoCall
                               THEN keywords_table ELSE @]
    /\ UNCHANGED <<keywords_table, keyword_requests>>
    /\ UNCHANGED <<audio_vars, notification_vars>>

\* lines 127-163 with the row first() returned (0: none): the result and the
\* cache afterwards
get_talking_points(cache, keyword, row, fetch) ==
    LET keyword_lower == Lower(keyword)
    IN IF Cached(cache, keyword_lower)
       THEN [result |-> TalkingPoints(CachedEntry(cache, keyword_lower).id),
             cache |-> cache, failed |-> FALSE]
       ELSE IF fetch = "keyword query fails"
       THEN [result |-> <<>>, cache |-> cache, failed |-> TRUE]
       ELSE IF row = 0
       THEN [result |-> <<>>, cache |-> cache, failed |-> FALSE]
       ELSE IF fetch = "talking points query fails"
       THEN [result |-> <<>>, cache |-> cache, failed |-> TRUE]
       ELSE [result |-> TalkingPoints(keywords_table[row].id),
             cache |-> Append(cache, [CacheEntry(keywords_table[row])
                                         EXCEPT !.key = keyword_lower]),
             failed |-> FALSE]

\* await detector.get_talking_points(keyword)
GetTalkingPoints(keyword, fetch) ==
    /\ detector.constructed
    /\ \E row \in (IF KeywordsLike(keywords_table, keyword) = {} THEN {0}
                   ELSE KeywordsLike(keywords_table, keyword)) :
        LET r == get_talking_points(detector.keywords_cache, keyword, row, fetch) IN
        /\ detector' = [detector EXCEPT !.keywords_cache = r.cache]
        /\ detector_calls' =
              [detector_calls EXCEPT
                  !.last = [op |-> "lookup", arg |-> keyword, result |-> r.result,
                            failed |-> r.failed,
                            keywords_cache |-> detector.keywords_cache, partial |-> <<>>],
                  !.lookups = (detector_calls.first # NoCall)]
    /\ UNCHANGED <<keywords_table, keyword_requests>>
    /\ UNCHANGED <<audio_vars, notification_vars>>

(***************************************************************************)
(* The keyword endpoints                                                   *)
(***************************************************************************)

\* the texts of the keywords posted
KeywordTexts == { <<"a">>, <<"A">>, <<"b">> }

\* the bodies of PUT requests: the fields that are set, text possibly to null
KeywordUpdates ==
    { [text |-> <<"c">>], [text |-> <<"b">>, threshold |-> 8], [threshold |-> 8],
      [text |-> NoText] }

\* crud.get_keyword: the place of the row with this id, 0 when there is none
crud_get_keyword(table, keyword_id) ==
    IF \E i \in 1..Len(table) : table[i].id = keyword_id
    THEN CHOOSE i \in 1..Len(table) : table[i].id = keyword_id
    ELSE 0

\* crud.create_keyword: the row with the id the sequence gives it
crud_create_keyword(table, id, keyword) ==
    Append(table, [id |-> id, text |-> keyword.text, threshold |-> keyword.threshold])

\* A faulty update that commits without setting the fields.
update_nothing(table, keyword_id, keyword_update) ==
    [failed |-> FALSE, table |-> table, row |-> crud_get_keyword(table, keyword_id)]

\* crud.update_keyword: setattr for every field that is set, then commit;
\* text is NOT NULL, so the commit of a null text raises and stores nothing.
\* row 0 stands for the None of line 40.
crud_update_keyword(table, keyword_id, keyword_update) ==
    LET i == crud_get_keyword(table, keyword_id)
        set(row, field) ==
            IF field \in DOMAIN keyword_update THEN keyword_update[field] ELSE row[field]
        updated == [id |-> table[i].id, text |-> set(table[i], "text"),
                    threshold |-> set(table[i], "threshold")]
    IN IF i = 0 THEN [failed |-> FALSE, table |-> table, row |-> 0]
       ELSE IF updated.text = NoText THEN [failed |-> TRUE, table |-> table, row |-> i]
       ELSE [failed |-> FALSE, table |-> [table EXCEPT ![i] = updated], row |-> i]

\* crud.delete_keyword
crud_delete_keyword(table, keyword_id) ==
    LET i == crud_get_keyword(table, keyword_id)
    IN IF i = 0 THEN [success |-> FALSE, table |-> table]
       ELSE [success |-> TRUE,
             table |-> SubSeq(table, 1, i - 1) \o SubSeq(table, i + 1, Len(table))]

\* a row as the response models Keyword and KeywordWithTalkingPoints show it
KeywordBody(row) == [id |-> row.id, text |-> row.text, threshold |-> row.threshold]

\* the request is recorded; a GET that follows a successful write of the same
\* id at once is noted
Requested(op, id, keyword, response) ==
    [keyword_requests EXCEPT
        !.prev = keyword_requests.last,
        !.last = [op |-> op, id |-> id, keyword |-> keyword, response |-> response],
        !.read_after =
            IF /\ op = "get"
               /\ keyword_requests.last.op \in {"create", "update", "delete"}
               /\ keyword_requests.last.response.status \in {200, 201}
               /\ keyword_requests.last.id = id
            THEN @ \cup {keyword_requests.last.op} ELSE @]

\* POST /keywords/
create_keyword(keyword) ==
    /\ keyword_requests.next_id <= MaxKeywordIds
    /\ IF KeywordsLike(keywords_table, keyword.text) # {}
       THEN /\ keyword_requests' =
                  Requested("create", 0, keyword, HTTPException(400, "already exists"))
            /\ UNCHANGED keywords_table
       ELSE LET id == keyword_requests.next_id
                table == crud_create_keyword(keywords_table, id, keyword)
            IN /\ keywords_table' = table
               /\ keyword_requests' =
                     [Requested("create", id, keyword,
                                [status |-> 201, body |-> KeywordBody(table[Len(table)])])
                        EXCEPT !.next_id = id + 1]
    /\ UNCHANGED <<detector, detector_calls>>
    /\ UNCHANGED <<audio_vars, notification_vars>>

\* GET /keywords/{keyword_id}
get_keyword(keyword_id) ==
    /\ LET i == crud_get_keyword(keywords_table, keyword_id)
       IN keyword_requests' =
             Requested("get", keyword_id, <<>>,
                 IF i = 0 THEN HTTPException(404, "not found")
                 ELSE [status |-> 200,
                       body |-> KeywordBody(keywords_table[i])
                                   @@ [talking_points |-> TalkingPoints(keyword_id)]])
    /\ UNCHANGED <<keywords_table, detector, detector_calls>>
    /\ UNCHANGED <<audio_vars, notification_vars>>

\* PUT /keywords/{keyword_id}
update_keyword(keyword_id, keyword_update) ==
    /\ IF crud_get_keyword(keywords_table, keyword_id) = 0
       THEN /\ keyword_requests' =
                  Requested("update", keyword_id, keyword_update,
                            HTTPException(404, "not found"))
            /\ UNCHANGED keywords_table
       ELSE LET updated == crud_update_keyword(keywords_table, keyword_id, keyword_update)
            IN /\ keywords_table' = updated.table
               /\ keyword_requests' =
                     Requested("update", keyword_id, keyword_update,
                         IF updated.failed \/ updated.row = 0
                         THEN HTTPException(500, "Internal Server Error")
                         ELSE [status |-> 200,
                               body |-> KeywordBody(updated.table[updated.row])])
    /\ UNCHANGED <<detector, detector_calls>>
    /\ UNCHANGED <<audio_vars, notification_vars>>

\* DELETE /keywords/{keyword_id}
delete_keyword(keyword_id) ==
    /\ IF crud_get_keyword(keywords_table, keyword_id) = 0
       THEN /\ keyword_requests' =
                  Requested("delete", keyword_id, <<>>, HTTPException(404, "not found"))
            /\ UNCHANGED keywords_table
       ELSE LET deleted == crud_delete_keyword(keywords_table, keyword_id)
            IN /\ keywords_table' = deleted.table
               /\ keyword_requests' =
                     Requested("delete", keyword_id, <<>>,
                         IF deleted.success
                         THEN [status |-> 200, body |-> [message |-> "deleted successfully"]]
                         ELSE HTTPException(500, "Failed to delete keyword"))
    /\ UNCHANGED <<detector, detector_calls>>
    /\ UNCHANGED <<audio_vars, notification_vars>>

(***************************************************************************)
(* Specifications                                                          *)
(***************************************************************************)

\* Concurrent calls on one AudioProcessor instance.
Next ==
    \/ \E s \in KnownSessions, n \in SeqNumbers, b \in BOOLEAN : CallChunk(s, n, b)
    \/ \E s \in KnownSessions : CallFile(s)
    \/ \E t \in TaskIds : Step(t)

Spec == Init /\ [][Next]_vars

\* Concurrent requests to the endpoints, each on an instance of its own.
NextEndpoint ==
    \/ \E s \in Sessions, n \in SeqNumbers, b \in BOOLEAN : RequestChunk(s, n, b)
    \/ \E s \in Sessions, upload \in Uploads : RequestUpload(s, upload)
    \/ \E t \in TaskIds : Step(t)

SpecEndpoint == Init /\ [][NextEndpoint]_vars

\* Concurrent calls for one session on one AudioProcessor instance, with
\* transcriptions of more than one segment.
NextSegments ==
    \/ \E n \in SeqNumbers, b \in BOOLEAN : CallChunk("s1", n, b)
    \/ \E t \in TaskIds :
          \/ Accept(t)
          \/ TranscribeDoneWith(t, SegmentResponses)
          \/ Notified(t)
          \/ ClosePartial(t)
          \/ CloseFinal(t)

SpecSegments == Init /\ [][NextSegments]_vars

\* Concurrent calls on one AudioProcessor instance while sessions are deleted
\* from storage.
NextDeletion ==
    \/ \E s \in KnownSessions, n \in SeqNumbers, b \in BOOLEAN : CallChunk(s, n, b)
    \/ \E t \in TaskIds : ChunkStep(t)
    \/ \E s \in KnownSessions : delete_audio_session(s)

SpecDeletion == Init /\ [][NextDeletion]_vars

\* The end-to-end scenario, posted to the chunk endpoint one chunk at a time.
NextScenario ==
    \/ ScenarioRequest
    \/ \E t \in TaskIds : ChunkStep(t)

SpecScenario == Init /\ [][NextScenario]_vars

\* Clients connecting to and leaving /connect/{session_id} while
\* notifications are sent.
NextNotify ==
    \/ \E h \in Handles, s \in KnownSessions : Connect(h, s)
    \/ \E h \in Handles : Break(h)
    \/ \E h \in Handles : Disconnect(h)
    \/ \E p \in PublishIds, s \in KnownSessions, broker \in BOOLEAN : Publish(p, s, broker)
    \/ \E p \in PublishIds : Deliver(p)

InitNotify == Init /\ api_key

SpecNotify == InitNotify /\ [][NextNotify]_vars

\* Clients of two sessions, and notifications for either of them.
NextSessions ==
    \/ \E h \in Handles, s \in Sessions : Connect(h, s)
    \/ \E h \in Handles : Break(h)
    \/ \E h \in Handles : Disconnect(h)
    \/ \E p \in PublishIds, s \in Sessions, broker \in BOOLEAN : Publish(p, s, broker)
    \/ \E p \in PublishIds : Deliver(p)

SpecSessions == InitNotify /\ [][NextSessions]_vars

\* The same, with callers that enter websocket_endpoint with a WebSocket
\* that is registered already.
NextResubscribe ==
    \/ \E h \in Handles, s \in KnownSessions : Connect(h, s)
    \/ \E h \in Handles : Break(h)
    \/ \E h \in Handles : Disconnect(h)
    \/ \E h \in Handles : Resubscribe(h)
    \/ \E p \in PublishIds, s \in KnownSessions, broker \in BOOLEAN : Publish(p, s, broker)
    \/ \E p \in PublishIds : Deliver(p)

SpecResubscribe == InitNotify /\ [][NextResubscribe]_vars

\* Calls on one KeywordDetector while keywords are added to storage.
NextDetector ==
    \/ \E fail_at \in 0..(Len(KeywordRows) + 1) : NewKeywordDetector(fail_at)
    \/ CreateKeyword
    \/ \E text \in DetectTexts : DetectKeywords(text)
    \/ \E keyword \in LookupKeywords, fetch \in Fetches : GetTalkingPoints(keyword, fetch)

SpecDetector == InitNotify /\ [][NextDetector]_vars

\* Requests to the keyword endpoints, one after the other.
NextKeywords ==
    \/ \E text \in KeywordTexts : create_keyword([text |-> text, threshold |-> 7])
    \/ \E id \in 1..MaxKeywordIds : get_keyword(id)
    \/ \E id \in 1..MaxKeywordIds, keyword_update \in KeywordUpdates :
          update_keyword(id, keyword_update)
    \/ \E id \in 1..MaxKeywordIds : delete_keyword(id)

SpecKeywords == InitNotify /\ [][NextKeywords]_vars

(***************************************************************************)
(* Properties of the chunk sequencing (lines 131-144)                      *)
(***************************************************************************)

\* the events of a call that have the given type
EventsOfType(t, type) == {i \in 1..Len(tasks[t].events) : tasks[t].events[i].type = type}

\* C1: within one state dict, the sequence numbers accepted are strictly
\* increasing, and last_sequence is the last number accepted (-1 before the
\* first): a chunk is accepted only above last_sequence and acceptance sets
\* last_sequence to its number.
C1_AcceptedStrictlyIncreasing ==
    \A o \in TaskIds :
        LET a == heap[o].accepted IN
        /\ \A i, j \in 1..Len(a) : i < j => a[i] < a[j]
        /\ heap[o].last_sequence = IF a = <<>> THEN -1 ELSE a[Len(a)]

\* two chunks were accepted on one state dict
C1_TwoAccepted == \E o \in TaskIds : Len(heap[o].accepted) >= 2

\* C2: when the call of a chunk whose number is <= last_sequence of the
\* session's state dict runs its check, the chunk is dropped and nothing else
\* changes: last_sequence and the buffer of every state dict, the stored
\* transcripts and the temporary files stay as they are, the call returns
\* without having called transcription (no segments) and with no event.
C2_StaleChunkDropped ==
    [][\A t \in TaskIds :
          LET tk == tasks[t]
              o == active_sessions[tk.proc][tk.session_id]
          IN (/\ tk.kind = "chunk" /\ tk.pc = "queued" /\ tasks'[t].pc # "queued"
              /\ o # NoRef
              /\ tk.sequence_number <= heap[o].last_sequence)
             => /\ tasks'[t].pc = "done" /\ tasks'[t].outcome = "rejected"
                /\ tasks'[t].segments = <<>>
                /\ tasks'[t].events = <<>>
                /\ \A q \in TaskIds : /\ heap'[q].last_sequence = heap[q].last_sequence
                                      /\ heap'[q].chunks = heap[q].chunks
                /\ transcripts' = transcripts
                /\ temp_files' = temp_files]_vars

\* a chunk was dropped on a state dict whose buffer holds a recorded chunk
C2_DroppedOnUsedState ==
    \E t \in TaskIds :
        /\ tasks[t].outcome = "rejected"
        /\ heap[tasks[t].session_data].chunks # <<>>
        /\ tasks[t].sequence_number <= heap[tasks[t].session_data].last_sequence

\* C3: a chunk submitted with a number <= the highest number already accepted
\* for its session is never accepted, and its text is in no transcript stored
\* for the session.
C3_StaleNeverAccepted ==
    \A t \in TaskIds :
        (tasks[t].kind = "chunk" /\ tasks[t].stale) =>
            /\ ~tasks[t].accepted
            /\ \A i \in 1..Len(transcripts) :
                  transcripts[i].session_id = tasks[t].session_id
                      => ~Contains(<<AudioTag(t)>>, transcripts[i].text)

\* C7: of the chunks of one session no two with the same number are both
\* accepted, and none is accepted once a chunk of the session with a higher
\* number has been.
C7_AtomicCheckAndSet ==
    /\ \A t, u \in TaskIds :
          (/\ t # u
           /\ tasks[t].kind = "chunk" /\ tasks[u].kind = "chunk"
           /\ tasks[t].accepted /\ tasks[u].accepted
           /\ tasks[t].session_id = tasks[u].session_id)
          => tasks[t].sequence_number # tasks[u].sequence_number
    /\ \A t \in TaskIds : tasks[t].accepted => ~tasks[t].late

(***************************************************************************)
(* Properties of the assembled transcript (lines 171-204)                  *)
(***************************************************************************)

\* the sequence numbers of the chunks the segments assembled by a call come from
Origins(t) == {tasks[t].all_segments[i].origin : i \in 1..Len(tasks[t].all_segments)}

\* C4: the segment list a terminal chunk assembles is in ascending order of
\* the sequence number of the chunk each segment comes from, whatever the
\* order in which the transcriptions completed.
C4_AssembledBySequence ==
    \A t \in TaskIds :
        \A i, j \in 1..Len(tasks[t].all_segments) :
            i < j => tasks[t].all_segments[i].origin <= tasks[t].all_segments[j].origin

\* a terminal chunk assembled the segments of two chunks from a buffer in
\* which the higher number was recorded first
C4_CompletedOutOfOrder ==
    \E t \in TaskIds :
        LET chunks == heap[tasks[t].session_data].chunks IN
        /\ Cardinality(Origins(t)) >= 2
        /\ \E i, j \in 1..Len(chunks) :
              i < j /\ chunks[i].sequence_number > chunks[j].sequence_number

\* the chunks of a buffer from the lowest sequence number up
Ranked(buf) ==
    [k \in 1..Len(buf) |->
        buf[CHOOSE i \in 1..Len(buf) :
               Cardinality({j \in 1..Len(buf) :
                   \/ buf[j].sequence_number < buf[i].sequence_number
                   \/ buf[j].sequence_number = buf[i].sequence_number /\ j < i}) = k - 1]]

\* the segment texts of a buffer, chunk by chunk from the lowest number up
SegmentTexts(buf) ==
    Flatten([k \in 1..Len(buf) |->
        [m \in 1..Len(Ranked(buf)[k].segments) |-> Ranked(buf)[k].segments[m].text]])

RECURSIVE SpaceSeparated(_)
\* the texts one after the other with one space between neighbours
SpaceSeparated(texts) ==
    IF texts = <<>> THEN <<>>
    ELSE IF Len(texts) = 1 THEN texts[1]
    ELSE SpaceSeparated(SubSeq(texts, 1, Len(texts) - 1)) \o <<" ">> \o texts[Len(texts)]

\* C6: when a terminal chunk emits TRANSCRIPTION_COMPLETE, the transcript row
\* stored in the same step for its session and the event both carry the
\* segment texts of the chunks recorded in the state dict, in ascending
\* sequence order, separated by single spaces.
C6_TranscriptText ==
    [][\A t \in TaskIds :
          LET n == Len(tasks'[t].events)
              expected == SpaceSeparated(SegmentTexts(heap'[tasks[t].session_data].chunks))
          IN (/\ tasks[t].kind = "chunk"
              /\ n = Len(tasks[t].events) + 1
              /\ tasks'[t].events[n].type = "transcription_complete")
             => /\ tasks'[t].events[n].payload.transcript = expected
                /\ Len(transcripts') = Len(transcripts) + 1
                /\ transcripts'[Len(transcripts')].session_id = tasks[t].session_id
                /\ transcripts'[Len(transcripts')].text = expected]_vars

\* a terminal chunk completed with the text of two chunks, stored and sent
C6_TwoChunksFinalized ==
    \E t \in TaskIds :
        /\ tasks[t].kind = "chunk" /\ tasks[t].outcome = "ok"
        /\ Cardinality(Origins(t)) >= 2
        /\ \E e \in EventsOfType(t, "transcription_complete") :
              /\ Contains(<<" ">>, tasks[t].events[e].payload.transcript)
              /\ \E i \in 1..Len(transcripts) :
                    transcripts[i].text = tasks[t].events[e].payload.transcript

\* C5: once the chunks 5, 3 and 6 (terminal) of the scenario have been posted
\* one after the other and the first and the last were processed without
\* failure, the chunk 3 was rejected and the one transcript stored holds the
\* segment texts of the chunks 5 and 6 and nothing else.
C5_ScenarioTranscript ==
    (/\ Submitted = Len(ChunkScenario)
     /\ \A t \in 1..Len(ChunkScenario) : Returned(t)
     /\ tasks[1].outcome = "ok" /\ tasks[3].outcome = "ok")
    => /\ tasks[2].outcome = "rejected"
       /\ Len(transcripts) = 1
       /\ transcripts[1].text =
             SpaceSeparated([i \in 1..Len(tasks[1].segments) |-> tasks[1].segments[i].text]
                         \o [i \in 1..Len(tasks[3].segments) |-> tasks[3].segments[i].text])

(***************************************************************************)
(* Properties of the failure handling (lines 100-114 and 218-224)          *)
(***************************************************************************)

\* C8: once an accepted chunk has failed, the state dict it was accepted on
\* is no longer the pipeline state of its session.
C8_FailureAbandonsState ==
    \A t \in TaskIds :
        (tasks[t].kind = "chunk" /\ tasks[t].accepted /\ tasks[t].outcome = "failed")
            => active_sessions[tasks[t].proc][tasks[t].session_id] # tasks[t].session_data

\* C9: an accepted chunk that failed has emitted exactly one ERROR event and
\* neither PARTIAL_TRANSCRIPTION nor TRANSCRIPTION_COMPLETE.
C9_OneErrorOnly ==
    \A t \in TaskIds :
        (tasks[t].kind = "chunk" /\ tasks[t].accepted /\ tasks[t].outcome = "failed")
            => /\ Cardinality(EventsOfType(t, "error")) = 1
               /\ EventsOfType(t, "partial_transcription") = {}
               /\ EventsOfType(t, "transcription_complete") = {}

\* C10: no call of process_audio_chunk_and_save or process_audio_file_and_save
\* ends in an exception at its caller.
C10_NeverRaises == \A t \in TaskIds : ~tasks[t].raised

\* a chunk call and a file call both failed, emitted ERROR and returned
C10_BothFailedAndReturned ==
    \E t, u \in TaskIds :
        /\ tasks[t].kind = "chunk" /\ tasks[u].kind = "file"
        /\ Returned(t) /\ Returned(u)
        /\ tasks[t].outcome = "failed" /\ tasks[u].outcome = "failed"
        /\ EventsOfType(t, "error") # {} /\ EventsOfType(u, "error") # {}
        /\ ~tasks[t].raised /\ ~tasks[u].raised

(***************************************************************************)
(* Properties of the notification fan-out (notification.py, websockets.py) *)
(***************************************************************************)

\* the step in which broadcast p leaves its delivery loop and returns
Returns(p) == broadcasts[p].state = "delivering" /\ broadcasts'[p].state = "done"

\* C11: when a broadcast whose session's list nobody else changed meanwhile
\* returns, send_text has been called on every connection registered for the
\* session, in order; each of them either got the event or raised, the
\* broadcast itself has not raised, and with N connections of which k raised
\* N - k deliveries succeeded.
C11_IndependentDelivery ==
    [][\A p \in PublishIds :
          (Returns(p) /\ ~broadcasts[p].disturbed) =>
              LET b == Outcome(p) IN
              /\ ~broadcasts'[p].raised
              /\ b.attempted = b.snapshot
              /\ \A h \in Handles :
                    InList(b.snapshot, h) =>
                        (InList(b.delivered, h) # InList(b.connections_to_remove, h))
              /\ Len(b.delivered) = Len(b.snapshot) - Len(b.connections_to_remove)]_vars

\* a delivery has raised and the loop has gone on to the next connection,
\* which can be sent to
C11_GoesOnAfterFailure ==
    \E p \in PublishIds :
        LET b == broadcasts[p] IN
        /\ b.state = "delivering" /\ ~b.disturbed
        /\ Len(b.snapshot) >= 2
        /\ b.connections_to_remove # <<>>
        /\ b.index = Len(b.snapshot)
        /\ Sendable(b.current)

\* the handles of list that are not in removed, in the order of list
Without(list, removed) == SelectSeq(list, LAMBDA h : ~InList(removed, h))

\* C12: When a broadcast returns, the handles registered for its session are
\* exactly those registered when it began minus those whose delivery threw.
\* Nothing is removed while the delivery pass is running: until the broadcast
\* returns the registered list is the one it began with, even after some
\* delivery has thrown.  A handle that was removed is never taken up by a
\* broadcast again, so a later publish reaches only the remaining handles.
\* (Broadcasts whose session list is changed by nobody else meanwhile.)
C12_PrunedAfterThePass ==
    [][/\ \A p \in PublishIds :
            (Returns(p) /\ ~broadcasts[p].disturbed) =>
                /\ Registered(broadcasts[p].session_id) = broadcasts[p].snapshot
                /\ \A s \in Sessions :
                      s = broadcasts[p].session_id =>
                          Registered(s)' =
                              Without(broadcasts[p].snapshot, Outcome(p).connections_to_remove)
       /\ \A p \in PublishIds :
            (broadcasts'[p].state = "delivering" /\ ~broadcasts'[p].disturbed) =>
                \A s \in Sessions :
                    s = broadcasts'[p].session_id => Registered(s)' = broadcasts'[p].snapshot
       /\ \A p \in PublishIds :
            (broadcasts'[p].state = "delivering"
                /\ broadcasts'[p].index # broadcasts[p].index) =>
                ~websockets[broadcasts'[p].current].pruned]_vars

\* a handle was removed by one publish and a later publish is delivering to
\* the handles that remained
C12_LaterPublishToTheRest ==
    \E p \in PublishIds, h \in Handles :
        /\ websockets[h].pruned
        /\ broadcasts[p].state = "delivering"
        /\ broadcasts[p].snapshot # <<>>
        /\ ~InList(broadcasts[p].snapshot, h)
        /\ \E q \in PublishIds : broadcasts[q].state = "done" /\ broadcasts[q].broker

\* C13: When the publish to the broker fails, send_notification still
\* delivers to every connection registered for the session: a call made
\* while the session has registered connections goes into the delivery loop
\* of broadcast_notification, whatever the broker did.
C13_LocalDeliveryDespiteBroker ==
    [][\A p \in PublishIds, s \in Sessions :
          (/\ broadcasts[p].state = "none"
           /\ broadcasts'[p].state # "none"
           /\ broadcasts'[p].session_id = s
           /\ Registered(s) # <<>>) =>
              /\ broadcasts'[p].state = "delivering"
              /\ broadcasts'[p].current = Registered(s)[1]]_vars

\* C14: With connections registering and leaving while a publish is in
\* progress, every handle that was registered when the broadcast began and is
\* still registered when it returns has received the event exactly once, and
\* the broadcast ends its pruning without raising.
C14_ExactlyOnceUnderChurn ==
    [][\A p \in PublishIds, s \in Sessions :
          (Returns(p) /\ broadcasts[p].session_id = s) =>
              /\ \A h \in Handles :
                    (InList(broadcasts[p].snapshot, h) /\ InList(Registered(s)', h)) =>
                        Count(Outcome(p).delivered, h) = 1
              /\ ~broadcasts'[p].raised]_vars

\* C15: When the endpoint of a registered handle ends, the handle is removed
\* from the list of its session, and if that leaves the list empty the entry
\* of the session is removed from the registry; otherwise the entry stays.
C15_DisconnectCleansUp ==
    [][\A h \in Handles, s \in Sessions :
          (/\ websockets[h].state = "open"
           /\ websockets'[h].state = "gone"
           /\ websockets[h].session_id = s
           /\ InList(Registered(s), h)) =>
              /\ ~InList(Registered(s)', h)
              /\ Registered(s)' = RemoveFirst(Registered(s), h)
              /\ (active_connections'[s] = NoRef) <=> (RemoveFirst(Registered(s), h) = <<>>)
              /\ ~websockets'[h].raised]_vars

\* the last handle of a session has left and the entry is gone, after another
\* handle of the session had left while the entry stayed
C15_LastOneOut ==
    \E s \in Sessions :
        /\ active_connections[s] = NoRef
        /\ \A h \in Handles :
              /\ websockets[h].state = "gone"
              /\ websockets[h].session_id = s
              /\ ~websockets[h].pruned
              /\ ~websockets[h].raised

C17_NoReplay ==
    [][/\ \A p \in PublishIds :
            broadcasts[p].state = "done" => broadcasts'[p] = broadcasts[p]
       /\ \A p \in PublishIds, h \in Handles :
            (/\ broadcasts'[p].state = "delivering"
             /\ broadcasts'[p].index # broadcasts[p].index
             /\ broadcasts'[p].current = h) =>
                p \notin websockets[h].missed]_vars

\* a handle has registered for a session after a publish for it had returned
C17_CameTooLate ==
    \E h \in Handles :
        /\ websockets[h].state = "open"
        /\ websockets[h].missed # {}
        /\ \E p \in websockets[h].missed :
              broadcasts[p].state = "done" /\ broadcasts[p].broker

(***************************************************************************)
(* Properties of the events of a chunk                                     *)
(***************************************************************************)

\* the type of the event that closes the processing of a chunk
ClosingType(is_final) ==
    IF is_final THEN "transcription_complete" ELSE "partial_transcription"

\* C18: The events of an accepted chunk whose processing succeeded are its
\* KEYWORD_DETECTED events, one per hit, followed by exactly one closing
\* event: PARTIAL_TRANSCRIPTION and no TRANSCRIPTION_COMPLETE for a
\* non-terminal chunk, TRANSCRIPTION_COMPLETE and no PARTIAL_TRANSCRIPTION
\* for a terminal one.
C18_KeywordsThenOneClosing ==
    \A t \in TaskIds :
        (tasks[t].kind = "chunk" /\ tasks[t].accepted /\ tasks[t].outcome = "ok") =>
            LET events == tasks[t].events
                n == Len(events)
            IN /\ n = Len(tasks[t].detected_keywords_list) + 1
               /\ \A i \in 1..(n - 1) : events[i].type = "keyword_detected"
               /\ events[n].type = ClosingType(tasks[t].is_final)
               /\ Cardinality(EventsOfType(t, ClosingType(tasks[t].is_final))) = 1
               /\ EventsOfType(t, ClosingType(~tasks[t].is_final)) = {}

\* a non-terminal and a terminal chunk have both succeeded, each with a
\* keyword hit
C18_BothKindsWithHits ==
    \E t \in TaskIds, u \in TaskIds :
        /\ tasks[t].kind = "chunk" /\ tasks[t].outcome = "ok" /\ ~tasks[t].is_final
        /\ tasks[u].kind = "chunk" /\ tasks[u].outcome = "ok" /\ tasks[u].is_final
        /\ EventsOfType(t, "keyword_detected") # {}
        /\ EventsOfType(u, "keyword_detected") # {}

\* the keyword hits of all segments of a finalized transcript
HitsOf(segments) == Flatten([k \in 1..Len(segments) |-> segments[k].detected_keywords])

\* C19: TRANSCRIPTION_COMPLETE carries the keyword hits of all the chunks
\* that make up the finalized transcript, not only those of the terminal
\* chunk.
C19_CompleteCarriesAllHits ==
    \A t \in TaskIds :
        \A i \in EventsOfType(t, "transcription_complete") :
            tasks[t].kind = "chunk" =>
            LET carried == tasks[t].events[i].payload.detected_keywords
                hits == HitsOf(tasks[t].all_segments)
            IN /\ Len(carried) = Len(hits)
               /\ \A k \in 1..Len(hits) : InList(carried, hits[k])

\* C20: The state of a session is created by its first chunk and is gone once
\* its terminal chunk has been processed: when the call for an accepted chunk
\* has passed the sequence check the session has an entry in active_sessions,
\* and when the call for an accepted terminal chunk ends the session has none.
C20_StateGoneAfterTerminal ==
    [][\A t \in TaskIds :
          /\ (/\ tasks[t].kind = "chunk"
              /\ tasks[t].pc = "queued"
              /\ tasks'[t].pc \notin {"queued", "done"}) =>
                 active_sessions'[tasks[t].proc][tasks[t].session_id] # NoRef
          /\ (/\ tasks[t].kind = "chunk"
              /\ tasks[t].pc # "done"
              /\ tasks'[t].pc = "done"
              /\ tasks'[t].accepted
              /\ tasks[t].is_final) =>
                 active_sessions'[tasks[t].proc][tasks[t].session_id] = NoRef]_vars

(***************************************************************************)
(* Properties of persistence, temporary files and rejection                *)
(***************************************************************************)

\* the Transcript rows stored for a session
TranscriptsOf(session_id) ==
    {i \in 1..Len(transcripts) : transcripts[i].session_id = session_id}

\* C21: Whatever chunks are submitted to a streaming session, several of
\* them terminal or some after a terminal one, at most one Transcript is
\* stored for the session.  (Sessions no file was uploaded for: an upload
\* stores a Transcript of its own.)
C21_OneTranscriptPerSession ==
    \A s \in Sessions :
        (\A t \in TaskIds : ~(tasks[t].kind = "file" /\ tasks[t].session_id = s)) =>
            Cardinality(TranscriptsOf(s)) <= 1

\* C22: Every temporary audio file written while a chunk or an uploaded file
\* is processed is gone when the call returns, whether the call succeeded or
\* transcription, keyword notification or persistence failed: the files on
\* disk are those of calls that wrote one and have not returned.
C22_TempFilesDeleted ==
    /\ \A t \in TaskIds : Returned(t) => t \notin temp_files
    /\ \A t \in temp_files : tasks[t].temp_path /\ ~Returned(t)

\* a chunk call and an upload have returned after writing their files, one
\* of them with a failure after its transcription, and no file is left
C22_FailedAndCleaned ==
    /\ temp_files = {}
    /\ \E t \in TaskIds, u \in TaskIds :
        /\ tasks[t].kind = "chunk" /\ tasks[u].kind = "file"
        /\ Returned(t) /\ Returned(u)
        /\ tasks[t].temp_path /\ tasks[u].temp_path
        /\ tasks[t].outcome = "failed" /\ tasks[t].segments # <<>>
        /\ tasks[u].outcome \in {"ok", "failed"}

\* C23: With the transcription credential missing, the failure comes before
\* any chunk work: the call for a chunk creates no state dict, modifies none
\* (last_sequence is not advanced) and writes no temporary audio file.
C23_NoWorkWithoutCredential ==
    [][\A t \in TaskIds :
          (/\ ~api_key
           /\ tasks[t].kind = "chunk"
           /\ tasks[t].pc = "queued"
           /\ tasks'[t].pc # "queued") =>
              /\ active_sessions' = active_sessions
              /\ heap' = heap
              /\ ~tasks'[t].temp_path]_vars

\* C24: A chunk or a file posted for a session storage does not know is
\* answered 404 before it enters the pipeline: no background task is
\* scheduled for it, no state dict is created for the session, no temporary
\* file is written, nothing is stored and no event is emitted.
C24_UnknownSessionRejected ==
    \A t \in TaskIds :
        (tasks[t].kind # "none" /\ tasks[t].session_id \notin db_sessions) =>
            /\ tasks[t].outcome = "http404"
            /\ Returned(t)
            /\ tasks[t].events = <<>>
            /\ ~tasks[t].accepted
            /\ ~tasks[t].temp_path
            /\ tasks[t].session_data = NoRef
            /\ \A p \in Procs : active_sessions[p][tasks[t].session_id] = NoRef
            /\ TranscriptsOf(tasks[t].session_id) = {}

\* a chunk and a file were posted for a session storage does not know
C24_BothRejected ==
    \E t \in TaskIds, u \in TaskIds :
        /\ tasks[t].kind = "chunk" /\ tasks[u].kind = "file"
        /\ tasks[t].session_id \notin db_sessions
        /\ tasks[u].session_id \notin db_sessions
        /\ tasks[t].outcome = "http404" /\ tasks[u].outcome = "http404"

(***************************************************************************)
(* Properties of the KeywordDetector                                       *)
(***************************************************************************)

\* kw stands in s as a word of its own: it occurs with no word character
\* next to it on either side
WholeWord(kw, s) ==
    \E i \in 1..Len(s) :
        /\ MatchAt(s, kw, i)
        /\ i = 1 \/ ~IsWordChar(s[i - 1])
        /\ i + Len(kw) > Len(s) \/ ~IsWordChar(s[i + Len(kw)])

\* kw occurs in s
Occurs(kw, s) == \E i \in 1..Len(s) : MatchAt(s, kw, i)

\* the confidence of the hit a cache entry is to yield for a text, 0 for none
Expected(kd, text) ==
    IF WholeWord(kd.key, Lower(text)) THEN ExactConfidence
    ELSE IF Occurs(kd.key, Lower(text)) /\ PartialConfidence >= kd.threshold
    THEN PartialConfidence
    ELSE 0

\* the last call on the detector, if it was detect_keywords on a text
DetectedText ==
    /\ detector_calls.last.op = "detect"
    /\ detector_calls.last.arg \notin {<<>>, NoText}

\* C25: detect_keywords matches case-insensitively and yields, for each
\* keyword of the index: one hit of confidence 1.0 when the keyword stands in
\* the text as a whole word, whatever its threshold; one hit of confidence
\* 0.8 when it occurs only inside a word and 0.8 >= its threshold; no hit
\* when it occurs only inside a word and 0.8 < its threshold, or not at all.
C25_MatchConfidence ==
    DetectedText =>
        LET call == detector_calls.last
            cache == call.keywords_cache
            hits == call.result
        IN /\ Len(hits) =
                 Cardinality({i \in 1..Len(cache) : Expected(cache[i], call.arg) # 0})
           /\ \A i \in 1..Len(cache) :
                 Expected(cache[i], call.arg) # 0 =>
                     \E j \in 1..Len(hits) :
                         /\ hits[j].id = cache[i].id
                         /\ hits[j].keyword = cache[i].text
                         /\ hits[j].confidence = Expected(cache[i], call.arg)
           /\ \A j \in 1..Len(hits) :
                 \E i \in 1..Len(cache) :
                     /\ hits[j].id = cache[i].id
                     /\ hits[j].confidence = Expected(cache[i], call.arg)

\* one call found a keyword inside a word at a threshold of exactly 0.8, and
\* another found one keyword inside a word above its threshold and one below
C25_AllThreeCases ==
    /\ DetectedText
    /\ detector_calls.last.arg = <<"o", "k">>
    /\ \E j \in 1..Len(detector_calls.last.result) :
          detector_calls.last.result[j].confidence = PartialConfidence
    /\ detector_calls.first.arg = <<"p", "x">>
    /\ Len(detector_calls.first.keywords_cache) >= 2
    /\ Len(detector_calls.first.result) = 1

\* the place in the index of the entry that yielded a hit
EntryOf(cache, text, hit) ==
    CHOOSE i \in 1..Len(cache) :
        /\ cache[i].id = hit.id
        /\ cache[i].text = hit.keyword
        /\ Expected(cache[i], text) = hit.confidence

\* C26: the hits detect_keywords returns are in descending order of
\* confidence, and hits of equal confidence stand in the order in which their
\* keywords were inserted into the index.
C26_SortedStable ==
    DetectedText =>
        LET call == detector_calls.last
            hits == call.result
        IN \A j, k \in 1..Len(hits) :
              j < k =>
                  /\ hits[j].confidence >= hits[k].confidence
                  /\ hits[j].confidence = hits[k].confidence =>
                        EntryOf(call.keywords_cache, call.arg, hits[j])
                            < EntryOf(call.keywords_cache, call.arg, hits[k])

\* one call returned two hits of equal confidence, and another returned a
\* later keyword of the index before an earlier one of lower confidence
C26_TieAndReorder ==
    /\ DetectedText
    /\ detector_calls.first.op = "detect"
    /\ Len(detector_calls.first.result) = 2
    /\ detector_calls.first.result[1].confidence
           = detector_calls.first.result[2].confidence
    /\ Len(detector_calls.last.result) = 2
    /\ detector_calls.last.result[1].confidence
           > detector_calls.last.result[2].confidence
    /\ EntryOf(detector_calls.last.keywords_cache, detector_calls.last.arg,
               detector_calls.last.result[1])
           > EntryOf(detector_calls.last.keywords_cache, detector_calls.last.arg,
                     detector_calls.last.result[2])

\* C27: detect_keywords on an empty or null text returns the empty list and
\* raises nothing, whatever the index contains.
C27_EmptyTextNoHits ==
    /\ detector_calls.last.op = "detect"
    /\ detector_calls.last.arg \in {<<>>, NoText}
    => /\ detector_calls.last.result = <<>>
       /\ ~detector_calls.last.failed

\* the empty and the null text were both given to a detector whose index
\* held keywords
C27_BothOnLoadedIndex ==
    /\ detector_calls.first.op = "detect"
    /\ detector_calls.first.arg = <<>>
    /\ detector_calls.first.result = <<>>
    /\ Len(detector_calls.first.keywords_cache) >= 2
    /\ detector_calls.last.op = "detect"
    /\ detector_calls.last.arg = NoText
    /\ Len(detector_calls.last.keywords_cache) >= 2

\* detect_keywords ran twice or more, the last call on the text of the first
SameTextAgain ==
    /\ detector_calls.last.op = "detect"
    /\ detector_calls.first.op = "detect"
    /\ detector_calls.last.arg = detector_calls.first.arg

C29_FailedLoadKeepsSnapshot ==
    /\ detector_calls.last.op = "load"
    /\ detector_calls.last.failed
    => /\ detector.keywords_cache = detector_calls.last.keywords_cache
       /\ detector.keywords_cache = <<>>

\* the talking points query of the second stored keyword failed: the load
\* had put the first keyword into the cache by then
C29_FailedHalfway ==
    /\ detector_calls.last.op = "load"
    /\ detector_calls.last.failed
    /\ Len(detector_calls.last.partial) = 1
    /\ Len(keywords_table) >= 2
    /\ detector.keywords_cache = <<>>

\* the rows of the keywords table whose text is the keyword, whatever the case
StoredAs(table, keyword) ==
    {i \in 1..Len(table) : Lower(table[i].text) = Lower(keyword)}

\* C30: get_talking_points(keyword) returns the talking points of the cached
\* entry when the keyword is in the index, case-insensitively, and leaves the
\* index as it is; when the keyword is absent from the index but exists in
\* storage and the fetch succeeds, it adds the keyword to the index and
\* returns its talking points; when the keyword does not exist in storage or
\* the fetch fails, it returns an empty result and leaves the index unchanged.
C30_LookupContract ==
    [][ /\ detector_calls'.last.op = "lookup"
        /\ keywords_table' = keywords_table
        => LET call == detector_calls'.last
               key == Lower(call.arg)
               before == detector.keywords_cache
               after == detector'.keywords_cache
               rows == StoredAs(keywords_table, call.arg)
           IN IF Cached(before, key)
              THEN /\ call.result = TalkingPoints(CachedEntry(before, key).id)
                   /\ after = before
              ELSE IF rows # {} /\ ~call.failed
              THEN /\ \E i \in rows :
                         /\ call.result = TalkingPoints(keywords_table[i].id)
                         /\ after = Append(before,
                                [CacheEntry(keywords_table[i]) EXCEPT !.key = key])
              ELSE /\ call.result = <<>>
                   /\ after = before ]_vars

(***************************************************************************)
(* Properties of the endpoints' responses and of keyword storage          *)
(***************************************************************************)

\* C31: a successful upload of an audio file for an existing session is
\* answered with a response that contains a non-empty transcript of the
\* uploaded audio (looked for under the name transcript, and under the name
\* text that the response model has).
C31_UploadReturnsTranscript ==
    \A t \in TaskIds :
        /\ tasks[t].kind = "file"
        /\ tasks[t].session_id \in db_sessions
        /\ tasks[t].response.status = 200
        => \E field \in {"transcript", "text"} \cap DOMAIN tasks[t].response.body :
               tasks[t].response.body[field] # <<>>

\* a GET of the id that the request before it has written successfully
ReadBack(op) ==
    /\ keyword_requests.last.op = "get"
    /\ keyword_requests.prev.op = op
    /\ keyword_requests.prev.response.status \in {200, 201}
    /\ keyword_requests.last.id = keyword_requests.prev.id

\* C32: the round trip of a keyword through the endpoints: a GET by id that
\* follows the creation of the keyword returns the text it was created with;
\* one that follows an update returns the updated text; one that follows the
\* deletion is answered 404.
C32_KeywordRoundTrip ==
    LET get == keyword_requests.last
        write == keyword_requests.prev
    IN /\ ReadBack("create") =>
             /\ get.response.status = 200
             /\ get.response.body.text = write.keyword.text
       /\ ReadBack("update") =>
             /\ get.response.status = 200
             /\ get.response.body.text = write.response.body.text
             /\ "text" \in DOMAIN write.keyword =>
                    get.response.body.text = write.keyword.text
       /\ ReadBack("delete") => get.response.status = 404

\* each of the three has been read back, the update last, and it changed
\* the text
C32_AllThreeReadBack ==
    /\ keyword_requests.read_after = {"create", "update", "delete"}
    /\ ReadBack("update")
    /\ "text" \in DOMAIN keyword_requests.prev.keyword
    /\ keyword_requests.last.response.status = 200
    /\ keyword_requests.next_id > MaxKeywordIds

(***************************************************************************)
(* Properties of the events and the buffer of a chunk                      *)
(***************************************************************************)

\* C33: for each processed chunk, the number of KEYWORD_DETECTED events equals
\* the number of distinct keywords hit among the segments of the chunk: a
\* keyword that is hit in several segments of the chunk yields one event, not
\* one per segment.
C33_OneEventPerKeyword ==
    \A t \in TaskIds :
        (tasks[t].kind = "chunk" /\ tasks[t].accepted /\ tasks[t].outcome = "ok") =>
            Cardinality(EventsOfType(t, "keyword_detected"))
                = Cardinality({h.id : h \in {tasks[t].detected_keywords_list[k] :
                                   k \in 1..Len(tasks[t].detected_keywords_list)}})

\* C34: every TRANSCRIPTION_COMPLETE event emitted for the terminal chunk of
\* a session comes after a Transcript of that session was stored by the same
\* call: when create_transcript stores nothing, because storage no longer
\* knows the session, or fails, no TRANSCRIPTION_COMPLETE is emitted.
C34_CompleteOnlyAfterPersisted ==
    [][ \A t \in TaskIds :
          /\ tasks[t].kind = "chunk"
          /\ EventsOfType(t, "transcription_complete") = {}
          /\ EventsOfType(t, "transcription_complete")' # {}
          => /\ Len(transcripts') = Len(transcripts) + 1
             /\ transcripts'[Len(transcripts')].session_id = tasks[t].session_id
             /\ tasks[t].session_id \in db_sessions ]_vars

\* C35: processing an uploaded file touches no sequencing state (no step of
\* it changes active_sessions or a state dict) and ends with exactly one
\* terminal event for the session: TRANSCRIPTION_COMPLETE when transcription,
\* keyword matching and persistence have all succeeded, ERROR otherwise, and
\* never both.
C35_FileEndsWithOneTerminalEvent ==
    [][ \A t \in TaskIds :
          (tasks[t].kind = "file" /\ tasks'[t] # tasks[t]) =>
              /\ active_sessions' = active_sessions
              /\ heap' = heap
              /\ Returned(t)' =>
                    LET complete == Cardinality(EventsOfType(t, "transcription_complete")')
                        error == Cardinality(EventsOfType(t, "error")')
                    IN /\ complete + error = 1
                       /\ tasks'[t].outcome = "ok" => complete = 1
                       /\ tasks'[t].outcome = "failed" => error = 1 ]_vars

\* the entries of all chunk buffers, and the segments of all finalized
\* transcripts, that a call has contributed
Contributed(t) ==
    UNION {{<<"buffer", o, i>> :
               i \in {j \in 1..Len(heap[o].chunks) : heap[o].chunks[j].call = t}} :
           o \in TaskIds}
    \cup UNION {{<<"transcript", u, k>> :
               k \in {j \in 1..Len(tasks[u].all_segments) :
                          tasks[u].all_segments[j].call = t}} :
           u \in TaskIds}

\* the call was rejected at line 140, or its transcription raised
RejectedOrNotTranscribed(t) ==
    \/ tasks[t].outcome = "rejected"
    \/ /\ tasks[t].outcome = "failed"
       /\ \E i \in EventsOfType(t, "error") :
             tasks[t].events[i].payload.error
                 \in {"transcription failed", "OpenAI API key is not configured"}

C37_NoEmptyEntries ==
    \A s \in Sessions :
        active_connections[s] # NoRef => connection_lists[active_connections[s]] # <<>>

\* C40: when the endpoint of a connection ends and a failed delivery has
\* already pruned the connection from the registry, or the entry of its
\* session is already gone, the clean-up raises nothing and leaves the
\* registry as it is, on every path on which the endpoint ends.
C40_CleanupAfterPruning ==
    [][ \A h \in Handles :
          /\ websockets[h].state = "open"
          /\ websockets'[h].state = "gone"
          /\ ~InList(Registered(websockets[h].session_id), h)
          => /\ ~websockets'[h].raised
             /\ active_connections' = active_connections
             /\ connection_lists' = connection_lists ]_vars

(***************************************************************************)
(* Properties of delivery across sessions                                  *)
(***************************************************************************)

\* send_notification call p takes a step of its own
Advances(p) ==
    \/ broadcasts'[p].state # broadcasts[p].state
    \/ broadcasts'[p].attempted # broadcasts[p].attempted
    \/ broadcasts'[p].delivered # broadcasts[p].delivered
    \/ broadcasts'[p].connections_to_remove # broadcasts[p].connections_to_remove

\* the session a send_notification call that takes a step is for
SessionOf(p) ==
    IF broadcasts[p].state = "none" THEN broadcasts'[p].session_id
    ELSE broadcasts[p].session_id

\* C39: an event published for a session is delivered only to connections
\* registered under that session: send_text is never called on a connection
\* that registered under another session, and no step of the publish changes
\* the entry or the list of connections of any other session.
C39_DeliveredWithinSession ==
    [][ \A p \in PublishIds :
          Advances(p) =>
              /\ \A i \in 1..Len(broadcasts'[p].attempted) :
                    websockets[broadcasts'[p].attempted[i]].session_id = SessionOf(p)
              /\ \A i \in 1..Len(broadcasts'[p].delivered) :
                    websockets[broadcasts'[p].delivered[i]].session_id = SessionOf(p)
              /\ \A s \in Sessions \ {SessionOf(p)} :
                    /\ active_connections'[s] = active_connections[s]
                    /\ Registered(s)' = Registered(s) ]_vars

\* an event of one session is being sent to a connection of that session
\* while the other session has a connection registered
C39_OtherSessionRegistered ==
    \E p \in PublishIds, s \in Sessions :
        /\ broadcasts[p].state = "delivering"
        /\ broadcasts[p].session_id # s
        /\ broadcasts[p].attempted # <<>>
        /\ Registered(s) # <<>>

(***************************************************************************)
(* Properties of chunks in flight together                                 *)
(***************************************************************************)

\* the terminal chunk of call t was stored and its completion was sent
Persisted(t) ==
    /\ tasks[t].kind = "chunk" /\ tasks[t].is_final /\ tasks[t].accepted
    /\ EventsOfType(t, "transcription_complete") # {}

\* call u is a non-terminal chunk of the state dict of call t that was
\* accepted before the chunk of t (the numbers accepted in one dict rise)
\* and whose transcription succeeded: line 171 has put it into the buffer
RecordedEarlierChunk(u, t) ==
    /\ tasks[u].kind = "chunk" /\ ~tasks[u].is_final /\ tasks[u].accepted
    /\ tasks[u].session_data = tasks[t].session_data
    /\ tasks[u].sequence_number < tasks[t].sequence_number
    /\ \E i \in 1..Len(heap[tasks[u].session_data].chunks) :
          heap[tasks[u].session_data].chunks[i].call = u

\* C38: however the calls for the chunks of one session interleave, the
\* transcript stored for the terminal chunk holds the segments of every
\* non-terminal chunk of the session that was accepted before the terminal
\* chunk and whose transcription succeeded, also when that transcription
\* returned after the one of the terminal chunk.
C38_TranscriptHoldsEarlierChunks ==
    \A t \in TaskIds, u \in TaskIds :
        (Persisted(t) /\ RecordedEarlierChunk(u, t)) =>
            \E k \in 1..Len(tasks[t].all_segments) : tasks[t].all_segments[k].call = u

====
